---- MODULE Spec2Model ----
(***************************************************************************)
(* Request pipeline of the EduSmartSystem REST backend: the middleware     *)
(* chain of every protected route (authenticateToken, authorize, the Joi   *)
(* validators, the inline role guards of the routers) and the controllers  *)
(* that read and write the domain store (users, students, teachers,        *)
(* guardians, grades, attendance).  One request is in flight at a time;    *)
(* each middleware of the chain is one step.                               *)
(***************************************************************************)
EXTENDS Integers, Sequences, FiniteSets, TLC

VARIABLES users, students, teachers, guardians, grades, attendance, req, inflight,
          calc, now, auth

vars == <<users, students, teachers, guardians, grades, attendance, req, inflight,
          calc, now, auth>>

store == <<users, students, teachers, guardians, grades, attendance>>

\* What a request to a protected route leaves alone: the concurrent clients,
\* the helper call, the clock and the refresh-token history.
aside == <<inflight, calc, now, auth>>

(***************************************************************************)
(* Values                                                                  *)
(***************************************************************************)
\* JavaScript undefined: an absent property, query parameter or body field.
Undefined == "undefined"

\* SQL NULL / JavaScript null.
Null == "null"

Roles == {"admin", "teacher", "parent", "student"}

\* Largest number of rows of the students table (createStudent is not
\* accepted beyond it).
MaxStudents == 3

\* Primary keys of the rows the database holds at start-up.
UserIds == {"uAdmin", "uTeachA", "uTeachB", "uStud1", "uStud2", "uParent",
            "uOffAdmin", "uOffTeach"}

\* A user id carried by a well-signed token whose row does not exist.
GhostUser == "uGone"

\* A path parameter that is not UUID-shaped.
BadUuid == "not-a-uuid"

\* Largest number of rows of the grades and of the attendance table.
MaxGrades == 4

MaxAttendance == 3

\* The ids the UUIDV4 default value gives to new rows, in order of creation.
StudentIdPool == <<"S3", "S4", "S5", "S6">>

GradeIdPool == <<"gr3", "gr4", "gr5", "gr6", "gr7">>

TeacherIdPool == <<"T4", "T5", "T6">>

\* Largest number of rows of the teachers table.
MaxTeachers == 4

UserIdPool == <<"uNew1", "uNew2", "uNew3">>

GuardianIdPool == <<"G2", "G3", "G4">>

AttendanceIdPool == <<"at2", "at3", "at4", "at5", "at6">>

FreshId(pool, used) ==
  pool[CHOOSE i \in 1..Len(pool) :
         /\ pool[i] \notin used
         /\ \A j \in 1..(i - 1) : pool[j] \in used]

(***************************************************************************)
(* The database at start-up (rows written by seeders or earlier runs).     *)
(***************************************************************************)
SeedUsers ==
  [u \in UserIds |->
     [refreshToken |-> Null,
      email |-> u,
      username |-> u,
      role |-> CASE u = "uAdmin"    -> "admin"
                 [] u = "uTeachA"   -> "teacher"
                 [] u = "uTeachB"   -> "teacher"
                 [] u = "uStud1"    -> "student"
                 [] u = "uStud2"    -> "student"
                 [] u = "uParent"   -> "parent"
                 [] u = "uOffAdmin" -> "admin"
                 [] u = "uOffTeach" -> "teacher",
      isActive |-> u \notin {"uOffAdmin", "uOffTeach"}]]

SeedStudents ==
  [s \in {"S1", "S2"} |->
     [userId |-> IF s = "S1" THEN "uStud1" ELSE "uStud2",
      studentNumber |-> IF s = "S1" THEN 1 ELSE 2,
      classId |-> "C1",
      status |-> "active"]]

SeedTeachers ==
  [t \in {"T1", "T2", "T3"} |->
     [userId |-> CASE t = "T1" -> "uTeachA"
                   [] t = "T2" -> "uTeachB"
                   [] t = "T3" -> "uOffTeach",
      employeeNumber |-> CASE t = "T1" -> 1 [] t = "T2" -> 2 [] t = "T3" -> 3,
      classes |-> IF t = "T1" THEN {"C1"} ELSE IF t = "T2" THEN {"C2"} ELSE {},
      status |-> "active"]]

\* Guardian G1 is the profile of uParent; its only child is S1.
SeedGuardians ==
  [g \in {"G1"} |-> [userId |-> "uParent", children |-> {"S1"}]]

SeedGrades ==
  [g \in {"gr1", "gr2"} |->
     IF g = "gr1"
     THEN [studentId |-> "S1", classId |-> "C1", teacherId |-> "T1",
           gradeValue |-> 95, gradeType |-> "exam", gradeDate |-> "D1"]
     ELSE [studentId |-> "S2", classId |-> "C2", teacherId |-> "T2",
           gradeValue |-> 70, gradeType |-> "quiz", gradeDate |-> "D1"]]

SeedAttendance ==
  [a \in {"at1"} |->
     [studentId |-> "S1", classId |-> "C1", date |-> "D1",
      teacherId |-> "T1", status |-> "present"]]

(***************************************************************************)
(* Route tables.  Every router mounts authenticateToken with router.use    *)
(* before its routes; a route's chain is then, in this order: authorize    *)
(* (when present), validateParams, validateQuery or validate, the inline   *)
(* role guard (when present) and the controller.                           *)
(***************************************************************************)
\* The chain has no authorize middleware.
NoAuthorize == {}

Route(name, method, authz, vparams, vquery, vbody, guard, ctrl) ==
  [name |-> name, method |-> method, authz |-> authz, vparams |-> vparams,
   vquery |-> vquery, vbody |-> vbody, guard |-> guard, ctrl |-> ctrl]

AdminTeacher == {"admin", "teacher"}

GradeRoutes ==
  { Route("GET /grades", "GET", NoAuthorize, FALSE, "list", "none", "narrowList", "getAllGrades"),
    Route("POST /grades", "POST", AdminTeacher, FALSE, "none", "grade", "none", "createGrade"),
    Route("POST /grades/batch", "POST", AdminTeacher, FALSE, "none", "batchGrades", "none", "batchCreateGrades"),
    Route("GET /grades/statistics", "GET", AdminTeacher, FALSE, "other", "none", "none", "read"),
    Route("GET /grades/:id", "GET", NoAuthorize, TRUE, "none", "none", "none", "stub"),
    Route("PUT /grades/:id", "PUT", AdminTeacher, TRUE, "none", "grade", "none", "updateGrade"),
    Route("DELETE /grades/:id", "DELETE", AdminTeacher, TRUE, "none", "none", "none", "stub"),
    Route("GET /grades/student/:studentId/summary", "GET", NoAuthorize, TRUE, "other", "none", "studentOwn", "stub"),
    Route("GET /grades/class/:classId/summary", "GET", AdminTeacher, TRUE, "other", "none", "none", "stub"),
    Route("GET /grades/subject/:subjectId/statistics", "GET", AdminTeacher, TRUE, "other", "none", "none", "stub"),
    Route("POST /grades/calculate-gpa", "POST", AdminTeacher, FALSE, "none", "other", "none", "stub") }

AttendanceRoutes ==
  { Route("GET /attendance", "GET", NoAuthorize, FALSE, "list", "none", "narrowList", "getAllAttendance"),
    Route("POST /attendance", "POST", AdminTeacher, FALSE, "none", "attendance", "none", "markAttendance"),
    Route("POST /attendance/batch", "POST", AdminTeacher, FALSE, "none", "batchAttendance", "none", "batchMarkAttendance"),
    Route("GET /attendance/report", "GET", AdminTeacher, FALSE, "other", "none", "none", "read"),
    Route("GET /attendance/statistics", "GET", AdminTeacher, FALSE, "other", "none", "none", "read"),
    Route("GET /attendance/:id", "GET", NoAuthorize, TRUE, "none", "none", "none", "stub"),
    Route("PUT /attendance/:id", "PUT", AdminTeacher, TRUE, "none", "attendance", "none", "stub"),
    Route("DELETE /attendance/:id", "DELETE", AdminTeacher, TRUE, "none", "none", "none", "stub"),
    Route("GET /attendance/student/:studentId/summary", "GET", NoAuthorize, TRUE, "other", "none", "studentOwn", "stub"),
    Route("GET /attendance/class/:classId/summary", "GET", AdminTeacher, TRUE, "other", "none", "none", "stub"),
    Route("GET /attendance/daily/:date", "GET", AdminTeacher, TRUE, "other", "none", "none", "stub"),
    Route("POST /attendance/alerts", "POST", AdminTeacher, FALSE, "none", "other", "none", "stub"),
    Route("POST /attendance/bulk-update", "POST", AdminTeacher, FALSE, "none", "other", "none", "stub") }

StudentRoutes ==
  { Route("GET /students", "GET", AdminTeacher, FALSE, "other", "none", "none", "read"),
    Route("POST /students", "POST", {"admin"}, FALSE, "none", "student", "none", "createStudent"),
    Route("POST /students/bulk", "POST", {"admin"}, FALSE, "none", "other", "none", "stub"),
    Route("GET /students/search", "GET", AdminTeacher, FALSE, "other", "none", "none", "stub"),
    Route("GET /students/statistics", "GET", AdminTeacher, FALSE, "other", "none", "none", "stub"),
    Route("GET /students/:id", "GET", NoAuthorize, TRUE, "none", "none", "studentOwn", "getStudentById"),
    Route("PUT /students/:id", "PUT", {"admin"}, TRUE, "none", "updateStudent", "none", "updateStudent"),
    Route("PATCH /students/:id/status", "PATCH", {"admin"}, TRUE, "none", "other", "none", "stub"),
    Route("DELETE /students/:id", "DELETE", {"admin"}, TRUE, "none", "none", "none", "deleteStudent"),
    Route("GET /students/:id/grades", "GET", NoAuthorize, TRUE, "other", "none", "studentOwn", "getStudentGrades"),
    Route("GET /students/:id/grades/summary", "GET", NoAuthorize, TRUE, "other", "none", "studentOwn", "stub"),
    Route("GET /students/:id/attendance", "GET", NoAuthorize, TRUE, "other", "none", "studentOwn", "getStudentAttendance"),
    Route("GET /students/:id/attendance/summary", "GET", NoAuthorize, TRUE, "other", "none", "studentOwn", "stub"),
    Route("GET /students/:id/report-card", "GET", NoAuthorize, TRUE, "other", "none", "studentOwn", "stub"),
    Route("GET /students/:id/performance-summary", "GET", NoAuthorize, TRUE, "other", "none", "studentOwn", "stub"),
    Route("GET /students/:id/guardian-info", "GET", NoAuthorize, TRUE, "none", "none", "studentOwn", "stub"),
    Route("POST /students/:id/guardians", "POST", {"admin"}, TRUE, "none", "other", "none", "stub"),
    Route("PUT /students/:id/guardians/:guardianId", "PUT", {"admin"}, TRUE, "none", "other", "none", "stub"),
    Route("DELETE /students/:id/guardians/:guardianId", "DELETE", {"admin"}, TRUE, "none", "none", "none", "stub"),
    Route("POST /students/:id/transfer", "POST", {"admin"}, TRUE, "none", "other", "none", "stub"),
    Route("GET /students/:id/academic-history", "GET", NoAuthorize, TRUE, "none", "none", "studentOwn", "stub"),
    Route("GET /students/:id/dashboard", "GET", NoAuthorize, TRUE, "none", "none", "studentOwn", "stub") }

TeacherRoutes ==
  { Route("GET /teachers", "GET", {"admin"}, FALSE, "other", "none", "none", "read"),
    Route("POST /teachers", "POST", {"admin"}, FALSE, "none", "teacher", "none", "createTeacher"),
    Route("GET /teachers/:id", "GET", NoAuthorize, TRUE, "none", "none", "teacherOwn", "getTeacherById"),
    Route("PUT /teachers/:id", "PUT", {"admin"}, TRUE, "none", "updateTeacher", "none", "updateTeacher"),
    Route("DELETE /teachers/:id", "DELETE", {"admin"}, TRUE, "none", "none", "none", "deleteTeacher"),
    Route("GET /teachers/:id/classes", "GET", NoAuthorize, TRUE, "other", "none", "teacherOwn", "getTeacherClasses"),
    Route("GET /teachers/:id/subjects", "GET", NoAuthorize, TRUE, "none", "none", "teacherOwn", "getTeacherSubjects"),
    Route("GET /teachers/:id/grades", "GET", NoAuthorize, TRUE, "other", "none", "teacherOwn", "getTeacherGrades"),
    Route("GET /teachers/:id/attendance", "GET", NoAuthorize, TRUE, "other", "none", "teacherOwn", "getTeacherAttendance"),
    Route("GET /teachers/:id/schedule", "GET", NoAuthorize, TRUE, "none", "none", "teacherOwn", "getTeacherSchedule"),
    Route("GET /teachers/:id/dashboard", "GET", NoAuthorize, TRUE, "none", "none", "teacherOwn", "getTeacherDashboard") }

ReportRoutes ==
  { Route("GET /reports/students", "GET", AdminTeacher, FALSE, "other", "none", "none", "read"),
    Route("GET /reports/grades", "GET", AdminTeacher, FALSE, "other", "none", "none", "read"),
    Route("GET /reports/attendance", "GET", AdminTeacher, FALSE, "other", "none", "none", "read"),
    Route("GET /reports/class-performance", "GET", AdminTeacher, FALSE, "other", "none", "none", "read"),
    Route("GET /reports/teacher-performance", "GET", NoAuthorize, FALSE, "teacherPerformance", "none", "teacherPerformance", "read"),
    Route("GET /reports/academic-summary", "GET", AdminTeacher, FALSE, "other", "none", "none", "stub"),
    Route("GET /reports/progress-tracking", "GET", NoAuthorize, FALSE, "progress", "none", "progressTracking", "stub"),
    Route("GET /reports/parent-summary", "GET", {"parent"}, FALSE, "other", "none", "none", "stub"),
    Route("GET /reports/dashboard-summary", "GET", NoAuthorize, FALSE, "none", "none", "none", "stub"),
    Route("POST /reports/custom", "POST", AdminTeacher, FALSE, "none", "other", "none", "stub"),
    Route("GET /reports/export/:type", "GET", AdminTeacher, TRUE, "other", "none", "none", "read"),
    Route("GET /reports/analytics/trends", "GET", AdminTeacher, FALSE, "other", "none", "none", "stub"),
    Route("GET /reports/alerts", "GET", AdminTeacher, FALSE, "other", "none", "none", "stub") }

\* The routes of the auth router that name authenticateToken as the first
\* middleware of their own chain (register, login and refresh are public).
AuthRoutes ==
  { Route("POST /auth/logout", "POST", NoAuthorize, FALSE, "none", "none", "none", "logout"),
    Route("GET /auth/profile", "GET", NoAuthorize, FALSE, "none", "none", "none", "read"),
    Route("PUT /auth/profile", "PUT", NoAuthorize, FALSE, "none", "other", "none", "stub"),
    Route("POST /auth/change-password", "POST", NoAuthorize, FALSE, "none", "other", "none", "stub") }

Routes == GradeRoutes \cup AttendanceRoutes \cup StudentRoutes \cup TeacherRoutes
          \cup ReportRoutes \cup AuthRoutes

(***************************************************************************)
(* Requests                                                                *)
(***************************************************************************)
\* Bearer tokens: none, one jwt.verify rejects as malformed, one it rejects
\* as expired, and well-signed unexpired ones carrying a userId.  uStud2
\* owns a profile but sends no request.
Callers == UserIds \ {"uStud2"}

Tokens ==
  { [kind |-> "none", userId |-> Undefined],
    [kind |-> "malformed", userId |-> Undefined],
    [kind |-> "expired", userId |-> "uAdmin"] }
  \cup { [kind |-> "signed", userId |-> u] : u \in Callers \cup {GhostUser} }

EmptyQuery ==
  [studentId |-> Undefined, teacherId |-> Undefined, malformed |-> FALSE,
   startDate |-> Undefined, endDate |-> Undefined]

\* Calendar days, in order: D0 before D1 before D2.
Dates == <<"D0", "D1", "D2">>

DateRank(d) == CHOOSE i \in 1..Len(Dates) : Dates[i] = d

\* new Date() at the time of a write.
Today == "D2"

\* The handlers whose query takes startDate and endDate.
DateRangeControllers == {"getAllAttendance", "getStudentAttendance", "getTeacherGrades"}

\* startDate / endDate of a query: one bound only, both in order, both
\* reversed.
DateRangeQueries ==
  { [EmptyQuery EXCEPT !.startDate = d[1], !.endDate = d[2]] :
      d \in { <<"D2", Undefined>>, <<Undefined, "D0">>, <<"D1", "D2">>,
              <<"D2", "D2">>, <<"D2", "D0">> } }

EmptyBody == [kind |-> "none"]

GradeTypes == {"assignment", "quiz", "exam", "project", "participation"}

AttendanceStatuses == {"present", "absent", "late", "excused"}

StudentStatuses == {"active", "graduated", "transferred", "withdrawn"}

TeacherStatuses == {"active", "inactive", "terminated"}

\* Path ids a client sends: ids of rows, a well-formed id of no row, and a
\* string that is no UUID.
PathIds(r) ==
  IF ~r.vparams THEN {Undefined}
  ELSE IF r.ctrl = "updateGrade" THEN {"gr1", "gr9", BadUuid}
  ELSE IF r \in StudentRoutes /\ r.method # "GET" THEN {"S1", "S9", BadUuid}
  ELSE IF r \in TeacherRoutes /\ r.method # "GET" THEN {"T1", "T9", BadUuid}
  ELSE IF r \in StudentRoutes \/ r.guard = "studentOwn" THEN {"S1", "S2", "S9", BadUuid}
  ELSE IF r \in TeacherRoutes THEN {"T1", "T2", "T9", BadUuid}
  ELSE {"X1", BadUuid}

FilterQueries(r) ==
  CASE r.vquery = "list" ->
         { [EmptyQuery EXCEPT !.studentId = s] : s \in {Undefined, "S1", "S2", BadUuid} }
    [] r.vquery = "progress" ->
         { [EmptyQuery EXCEPT !.studentId = s] : s \in {Undefined, "S1", "S2"} }
    [] r.vquery = "teacherPerformance" ->
         { [EmptyQuery EXCEPT !.teacherId = t] : t \in {Undefined, "T1", "T2", BadUuid} }
    [] r.vquery = "other" ->
         { [EmptyQuery EXCEPT !.malformed = m] : m \in BOOLEAN }
    [] OTHER -> {EmptyQuery}

Queries(r) ==
  IF r.ctrl \in DateRangeControllers THEN FilterQueries(r) \cup DateRangeQueries
  ELSE FilterQueries(r)

GradeBodies ==
  { [kind |-> "grade", studentId |-> "S1", classId |-> "C1", gradeValue |-> v,
     gradeType |-> "exam"] : v \in {60, 101} }
  \cup { [kind |-> "grade", studentId |-> "S1", classId |-> "C1", gradeValue |-> 60,
          gradeType |-> "exam", teacherId |-> "T1"] }

AttendanceRecords ==
  { [studentId |-> s, classId |-> "C1", date |-> "D1", status |-> st] :
      s \in {"S1", "S2"}, st \in {"absent", "bogus"} }

AttendanceBodies ==
  { [kind |-> "attendance", studentId |-> a.studentId, classId |-> a.classId,
     date |-> a.date, status |-> a.status] : a \in AttendanceRecords }

\* Longest attendanceRecords / grades array of a batch request.
MaxBatch == 2

BatchAttendanceBodies ==
  { [kind |-> "batchAttendance", attendanceRecords |-> recs] :
      recs \in UNION { [1..n -> {a \in AttendanceRecords : a.status # "bogus" \/ a.studentId = "S1"}] :
                         n \in 0..MaxBatch } }

BatchGradeBodies ==
  { [kind |-> "batchGrades",
     grades |-> [i \in 1..n |-> [studentId |-> "S1", classId |-> "C1",
                                 gradeValue |-> 60, gradeType |-> "exam"]]] :
      n \in 0..MaxBatch }

Bodies(r) ==
  CASE r.vbody = "grade" -> GradeBodies
    [] r.vbody = "batchGrades" -> BatchGradeBodies
    [] r.vbody = "attendance" -> AttendanceBodies
    [] r.vbody = "batchAttendance" -> BatchAttendanceBodies
    [] r.vbody = "student" ->
         { [kind |-> "student", classId |-> "C1", gender |-> g] : g \in {"female", "bogus"} }
    [] r.vbody = "updateStudent" ->
         { [kind |-> "updateStudent", status |-> st] : st \in {"graduated", "bogus"} }
    [] r.vbody = "teacher" ->
         { [kind |-> "teacher", experience |-> e] : e \in {3, -1} }
    [] r.vbody = "updateTeacher" ->
         { [kind |-> "updateTeacher", status |-> st] : st \in {"inactive", "bogus"} }
    [] r.vbody = "other" ->
         { [kind |-> "other", malformed |-> m] : m \in BOOLEAN }
    [] OTHER -> {EmptyBody}

(***************************************************************************)
(* Joi schemas (middleware/validation.js and the inline schemas of the     *)
(* routers).  Joi.object() rejects keys the schema does not name.          *)
(***************************************************************************)
IsUuid(x) == x # BadUuid

JoiGrade(b) ==
  /\ DOMAIN b \subseteq {"kind", "studentId", "classId", "gradeValue", "gradeType"}
  /\ IsUuid(b.studentId) /\ IsUuid(b.classId)
  /\ b.gradeValue >= 0 /\ b.gradeValue <= 100
  /\ b.gradeType \in GradeTypes

JoiAttendance(b) ==
  /\ DOMAIN b \subseteq {"kind", "studentId", "classId", "date", "status"}
  /\ IsUuid(b.studentId) /\ IsUuid(b.classId)
  /\ b.status \in AttendanceStatuses

SchemaAccepts(schema, b) ==
  CASE schema = "grade" -> JoiGrade(b)
    [] schema = "batchGrades" ->
         /\ Len(b.grades) >= 1
         /\ \A i \in 1..Len(b.grades) : JoiGrade(b.grades[i])
    [] schema = "attendance" -> JoiAttendance(b)
    [] schema = "batchAttendance" ->
         /\ Len(b.attendanceRecords) >= 1
         /\ \A i \in 1..Len(b.attendanceRecords) : JoiAttendance(b.attendanceRecords[i])
    [] schema = "student" -> b.gender \in {"male", "female"} /\ IsUuid(b.classId)
    [] schema = "updateStudent" -> b.status \in StudentStatuses
    [] schema = "teacher" -> b.experience >= 0
    [] schema = "updateTeacher" -> b.status \in TeacherStatuses
    [] OTHER -> ~b.malformed

\* startDate: Joi.date().optional(),
\* endDate: Joi.date().min(Joi.ref('startDate')).optional(): an endDate is
\* compared with startDate, and the reference must resolve to a date.
JoiDateRange(q) ==
  q.endDate # Undefined =>
    /\ q.startDate # Undefined
    /\ DateRank(q.startDate) <= DateRank(q.endDate)

QueryAccepts(schema, q) ==
  CASE schema = "list" -> IsUuid(q.studentId) /\ JoiDateRange(q)
    [] schema = "progress" -> q.studentId # Undefined /\ IsUuid(q.studentId)
    [] schema = "teacherPerformance" -> IsUuid(q.teacherId)
    [] OTHER -> ~q.malformed /\ JoiDateRange(q)

(***************************************************************************)
(* The request in flight                                                   *)
(***************************************************************************)
\* A where-clause key that is not set (as opposed to set to undefined).
Absent == "absent"

\* A where clause without a date key.
NoDate == [from |-> Absent, to |-> Absent]

NoFilter == [model |-> "none", studentId |-> Absent, teacherId |-> Absent, date |-> NoDate]

\* req.user before authenticateToken has set it.
NoUser ==
  [found |-> FALSE, id |-> Undefined, role |-> Undefined, isActive |-> FALSE,
   studentProfile |-> Undefined, teacherProfile |-> Undefined,
   guardianProfile |-> Undefined]

IdleRoute == Route("none", "NONE", NoAuthorize, FALSE, "none", "none", "none", "none")

IdleReq ==
  [route |-> IdleRoute, token |-> [kind |-> "none", userId |-> Undefined],
   id |-> Undefined, query |-> EmptyQuery, body |-> EmptyBody,
   stage |-> "idle", user |-> NoUser, status |-> 0, ran |-> {},
   filter |-> NoFilter, rows |-> {}, readStudents |-> {}]

Stages == <<"authenticateToken", "authorize", "validateParams", "validateQuery",
            "validate", "guard", "controller">>

StageIndex(st) == CHOOSE i \in 1..Len(Stages) : Stages[i] = st

HasStage(r, st) ==
  CASE st = "authorize" -> r.authz # NoAuthorize
    [] st = "validateParams" -> r.vparams
    [] st = "validateQuery" -> r.vquery # "none"
    [] st = "validate" -> r.vbody # "none"
    [] st = "guard" -> r.guard # "none"
    [] OTHER -> TRUE

\* next(): the following middleware of the route's chain.
NextStage(r, st) ==
  LET later == { j \in 1..Len(Stages) : j > StageIndex(st) /\ HasStage(r, Stages[j]) }
  IN Stages[CHOOSE j \in later : \A k \in later : j <= k]

\* res.status(code).json(...) without calling next(): the chain ends here.
Respond(r, mw, code) ==
  [r EXCEPT !.stage = "done", !.status = code, !.ran = @ \cup {mw}]

\* next() after middleware mw.
Pass(r, mw) ==
  [r EXCEPT !.stage = NextStage(r.route, mw), !.ran = @ \cup {mw}]

\* The caller's own profile row in the store (the row whose userId is the
\* authenticated user's id), Undefined when there is none.
StudentProfileOf(uid) ==
  IF \E s \in DOMAIN students : students[s].userId = uid
  THEN CHOOSE s \in DOMAIN students : students[s].userId = uid
  ELSE Undefined

TeacherProfileOf(uid) ==
  IF \E t \in DOMAIN teachers : teachers[t].userId = uid
  THEN CHOOSE t \in DOMAIN teachers : teachers[t].userId = uid
  ELSE Undefined

GuardianProfileOf(uid) ==
  IF \E g \in DOMAIN guardians : guardians[g].userId = uid
  THEN CHOOSE g \in DOMAIN guardians : guardians[g].userId = uid
  ELSE Undefined

(***************************************************************************)
(* middleware/auth.js                                                      *)
(***************************************************************************)
\* User.findByPk(decoded.userId): the users row alone; no association is
\* included, so studentProfile, teacherProfile and guardianProfile are not
\* properties of the instance.
UserFindByPk(uid) ==
  IF uid \in DOMAIN users
  THEN [found |-> TRUE, id |-> uid, role |-> users[uid].role,
        isActive |-> users[uid].isActive,
        studentProfile |-> Undefined, teacherProfile |-> Undefined,
        guardianProfile |-> Undefined]
  ELSE NoUser

\* jwt.verify(token, secret)
JwtVerify(token) ==
  CASE token.kind = "malformed" -> "JsonWebTokenError"
    [] token.kind = "expired" -> "TokenExpiredError"
    [] OTHER -> "ok"

\* A faulty authenticateToken that forgets the isActive test.
authenticateTokenIgnoringIsActive(token) ==
  IF token.kind = "none" THEN [status |-> 401, user |-> NoUser]
  ELSE IF JwtVerify(token) # "ok" THEN [status |-> 403, user |-> NoUser]
  ELSE LET user == UserFindByPk(token.userId)
       IN IF ~user.found
          THEN [status |-> 401, user |-> NoUser]
          ELSE [status |-> 0, user |-> user]

\* The decision of authenticateToken: the status it answers (0: next()) and
\* the user it attaches to the request.
authenticateToken(token) ==
  IF token.kind = "none" THEN [status |-> 401, user |-> NoUser]
  ELSE IF JwtVerify(token) = "JsonWebTokenError" THEN [status |-> 403, user |-> NoUser]
  ELSE IF JwtVerify(token) = "TokenExpiredError" THEN [status |-> 403, user |-> NoUser]
  ELSE LET user == UserFindByPk(token.userId)
       IN IF ~user.found \/ ~user.isActive
          THEN [status |-> 401, user |-> NoUser]
          ELSE [status |-> 0, user |-> user]

\* A faulty authorize that lets every role through a non-empty list.
authorizeAnyRole(roles, user) == IF roles = {} THEN 403 ELSE 0

\* authorize(roles): 403 unless roles.includes(req.user.role).
authorize(roles, user) == IF user.role \notin roles THEN 403 ELSE 0

(***************************************************************************)
(* The inline role guards of the routers.  Each answers a status (0:       *)
(* next()) and the query it leaves on the request.                         *)
(***************************************************************************)
\* students.js /:id..., grades.js and attendance.js /student/:studentId/...
studentOwn(user, id, query) ==
  IF user.role = "student"
  THEN IF user.studentProfile = Undefined \/ user.studentProfile # id
       THEN [status |-> 403, query |-> query]
       ELSE [status |-> 0, query |-> query]
  ELSE [status |-> 0, query |-> query]

\* A faulty teachers.js guard that compares the profile id whatever the role.
teacherOwnWhateverRole(user, id, query) ==
  IF user.teacherProfile = Undefined \/ user.teacherProfile # id
  THEN [status |-> 403, query |-> query]
  ELSE [status |-> 0, query |-> query]

\* teachers.js /:id...
teacherOwn(user, id, query) ==
  IF user.role = "teacher"
  THEN IF user.teacherProfile = Undefined \/ user.teacherProfile # id
       THEN [status |-> 403, query |-> query]
       ELSE [status |-> 0, query |-> query]
  ELSE [status |-> 0, query |-> query]

\* grades.js GET / and attendance.js GET /
narrowList(user, id, query) ==
  IF user.role = "student"
  THEN IF user.studentProfile = Undefined
       THEN [status |-> 403, query |-> query]
       ELSE [status |-> 0, query |-> [query EXCEPT !.studentId = user.studentProfile]]
  ELSE [status |-> 0, query |-> query]

\* reports.js GET /teacher-performance
teacherPerformance(user, id, query) ==
  IF user.role = "teacher"
  THEN IF user.teacherProfile = Undefined
       THEN [status |-> 403, query |-> query]
       ELSE IF query.teacherId # Undefined /\ query.teacherId # user.teacherProfile
       THEN [status |-> 403, query |-> query]
       ELSE [status |-> 0, query |-> [query EXCEPT !.teacherId = user.teacherProfile]]
  ELSE IF user.role # "admin"
  THEN [status |-> 403, query |-> query]
  ELSE [status |-> 0, query |-> query]

\* reports.js GET /progress-tracking
progressTracking(user, id, query) ==
  IF user.role = "parent"
  THEN [status |-> 0, query |-> query]
  ELSE IF user.role = "student"
  THEN IF user.studentProfile = Undefined \/ user.studentProfile # query.studentId
       THEN [status |-> 403, query |-> query]
       ELSE [status |-> 0, query |-> query]
  ELSE IF user.role \notin {"admin", "teacher"}
  THEN [status |-> 403, query |-> query]
  ELSE [status |-> 0, query |-> query]

RouteGuard(guard, user, id, query) ==
  CASE guard = "studentOwn" -> studentOwn(user, id, query)
    [] guard = "teacherOwn" -> teacherOwn(user, id, query)
    [] guard = "narrowList" -> narrowList(user, id, query)
    [] guard = "teacherPerformance" -> teacherPerformance(user, id, query)
    [] guard = "progressTracking" -> progressTracking(user, id, query)

(***************************************************************************)
(* Middleware steps                                                        *)
(***************************************************************************)
\* The response has been sent; the server waits for the next request.
EndResponse ==
  /\ req.stage = "done"
  /\ req' = IdleReq
  /\ UNCHANGED <<store, aside>>

\* A client sends a request; the previous one has been answered.
ReceiveRequest ==
  /\ req.stage = "idle"
  /\ \E r \in Routes, tok \in Tokens :
       \E id \in PathIds(r), q \in Queries(r), b \in Bodies(r) :
         /\ r.ctrl = "createStudent" => Cardinality(DOMAIN students) < MaxStudents
         /\ r.ctrl = "createTeacher" => Cardinality(DOMAIN teachers) < MaxTeachers
         /\ r.ctrl = "createGrade" => Cardinality(DOMAIN grades) < MaxGrades
         /\ r.ctrl = "batchCreateGrades" =>
              Cardinality(DOMAIN grades) + Len(b.grades) <= MaxGrades
         /\ r.ctrl = "markAttendance" => Cardinality(DOMAIN attendance) < MaxAttendance
         /\ r.ctrl = "batchMarkAttendance" =>
              Cardinality(DOMAIN attendance) + Len(b.attendanceRecords) <= MaxAttendance
         /\ req' = [IdleReq EXCEPT !.route = r, !.token = tok, !.id = id,
                                   !.query = q, !.body = b,
                                   !.stage = "authenticateToken"]
  /\ UNCHANGED <<store, aside>>

RunAuthenticateToken ==
  /\ req.stage = "authenticateToken"
  /\ LET d == authenticateToken(req.token)
     IN req' = IF d.status # 0
               THEN Respond(req, "authenticateToken", d.status)
               ELSE Pass([req EXCEPT !.user = d.user], "authenticateToken")
  /\ UNCHANGED <<store, aside>>

RunAuthorize ==
  /\ req.stage = "authorize"
  /\ LET code == authorize(req.route.authz, req.user)
     IN req' = IF code # 0 THEN Respond(req, "authorize", code)
               ELSE Pass(req, "authorize")
  /\ UNCHANGED <<store, aside>>

\* validateParams(schema): 400 unless the path parameters match the schema.
RunValidateParams ==
  /\ req.stage = "validateParams"
  /\ req' = IF ~IsUuid(req.id) THEN Respond(req, "validateParams", 400)
            ELSE Pass(req, "validateParams")
  /\ UNCHANGED <<store, aside>>

RunValidateQuery ==
  /\ req.stage = "validateQuery"
  /\ req' = IF ~QueryAccepts(req.route.vquery, req.query)
            THEN Respond(req, "validateQuery", 400)
            ELSE Pass(req, "validateQuery")
  /\ UNCHANGED <<store, aside>>

\* A validate(schema) that calls next() whatever the body is.
RunValidateAlwaysNext ==
  /\ req.stage = "validate"
  /\ req' = Pass(req, "validate")
  /\ UNCHANGED <<store, aside>>

\* validate(schema): 400 unless the body matches the schema.
RunValidate ==
  /\ req.stage = "validate"
  /\ req' = IF ~SchemaAccepts(req.route.vbody, req.body)
            THEN Respond(req, "validate", 400)
            ELSE Pass(req, "validate")
  /\ UNCHANGED <<store, aside>>

RunRouteGuard ==
  /\ req.stage = "guard"
  /\ LET d == RouteGuard(req.route.guard, req.user, req.id, req.query)
     IN req' = IF d.status # 0 THEN Respond(req, "guard", d.status)
               ELSE Pass([req EXCEPT !.query = d.query], "guard")
  /\ UNCHANGED <<store, aside>>

(***************************************************************************)
(* Sequelize operations the controllers call                               *)
(***************************************************************************)
\* The columns that hold ids; only these can carry undefined in the model.
IdFields == {"studentId", "classId", "teacherId", "subjectId", "userId"}

WithField(rec, k, v) == [x \in DOMAIN rec \cup {k} |-> IF x = k THEN v ELSE rec[x]]

\* instance.update(values): values that are undefined are dropped, the
\* others overwrite the row's columns.
SequelizeUpdate(row, values) ==
  [f \in DOMAIN row |->
     IF f \in DOMAIN values /\ ~(f \in IdFields /\ values[f] = Undefined)
     THEN values[f] ELSE row[f]]

\* allowNull: false on teacherId (models/Grade.js, models/Attendance.js):
\* create rejects a row whose teacherId is missing, undefined or null.
HasTeacherId(data) ==
  /\ "teacherId" \in DOMAIN data
  /\ data.teacherId \notin {Undefined, Null}

\* A where clause with a key set to undefined: depending on the Sequelize
\* release the query throws or compares the column with NULL.
FindOutcomes(where) ==
  IF where.studentId = Undefined \/ where.teacherId = Undefined
  THEN {"throw", "null"} ELSE {"rows"}

\* if (startDate && endDate) whereClause.date = { [Op.between]: [startDate, endDate] }
dateBetween(query) ==
  IF query.startDate # Undefined /\ query.endDate # Undefined
  THEN [from |-> query.startDate, to |-> query.endDate]
  ELSE NoDate

\* The date column of a row: date of Attendance, gradeDate of Grade.
RowDate(row) == IF "date" \in DOMAIN row THEN row.date ELSE row.gradeDate

InRange(d, range) ==
  /\ range.from = Absent \/ DateRank(range.from) <= DateRank(d)
  /\ range.to = Absent \/ DateRank(d) <= DateRank(range.to)

Matches(row, where) ==
  /\ where.studentId = Absent \/ row.studentId = where.studentId
  /\ where.teacherId = Absent \/ row.teacherId = where.teacherId
  /\ InRange(RowDate(row), where.date)

\* A faulty lookup that also compares the teacherId of the payload.
AttendanceFindOneOfTeacher(att, data) ==
  { a \in DOMAIN att : /\ att[a].studentId = data.studentId
                       /\ att[a].classId = data.classId
                       /\ att[a].date = data.date
                       /\ "teacherId" \in DOMAIN data
                       /\ att[a].teacherId = data.teacherId }

\* Attendance.findOne({ where: { studentId, classId, date } })
AttendanceFindOne(att, data) ==
  { a \in DOMAIN att : /\ att[a].studentId = data.studentId
                       /\ att[a].classId = data.classId
                       /\ att[a].date = data.date }

(***************************************************************************)
(* gradeController.js                                                      *)
(***************************************************************************)
\* whereClause of getAllGrades
getAllGradesWhere(user, query) ==
  [model |-> "Grade",
   studentId |-> IF query.studentId # Undefined THEN query.studentId ELSE Absent,
   teacherId |-> IF user.role = "teacher" THEN user.teacherProfile ELSE Absent,
   date |-> NoDate]

getAllGrades ==
  /\ req.stage = "controller" /\ req.route.ctrl = "getAllGrades"
  /\ LET where == getAllGradesWhere(req.user, req.query)
         found == { g \in DOMAIN grades : Matches(grades[g], where) }
     IN \E outcome \in FindOutcomes(where) :
          req' = IF outcome = "throw"
                 THEN [Respond(req, "controller", 500) EXCEPT !.filter = where]
                 ELSE [Respond(req, "controller", 200) EXCEPT
                         !.filter = where, !.rows = found,
                         !.readStudents = { grades[g].studentId : g \in found }]
  /\ UNCHANGED <<store, aside>>

\* gradeData of createGrade / each element of batchCreateGrades
gradeDataOf(user, body) ==
  IF user.role = "teacher" THEN WithField(body, "teacherId", user.teacherProfile)
  ELSE body

GradeRow(data) ==
  [studentId |-> data.studentId, classId |-> data.classId,
   teacherId |-> data.teacherId, gradeValue |-> data.gradeValue,
   gradeType |-> data.gradeType, gradeDate |-> Today]

createGrade ==
  /\ req.stage = "controller" /\ req.route.ctrl = "createGrade"
  /\ LET data == gradeDataOf(req.user, req.body)
     IN IF HasTeacherId(data)
        THEN LET id == FreshId(GradeIdPool, DOMAIN grades)
             IN /\ grades' = [g \in DOMAIN grades \cup {id} |->
                                IF g = id THEN GradeRow(data) ELSE grades[g]]
                /\ req' = [Respond(req, "controller", 201) EXCEPT !.rows = {id}]
        ELSE /\ grades' = grades
             /\ req' = Respond(req, "controller", 500)
  /\ UNCHANGED <<aside, users, students, teachers, guardians, attendance>>

\* A faulty updateGrade that has no ownership check.
updateGradeNeverDenied(user, grade) == FALSE

\* The ownership check of updateGrade.
updateGradeDenied(user, grade) ==
  user.role = "teacher" /\ grade.teacherId # user.teacherProfile

updateGrade ==
  /\ req.stage = "controller" /\ req.route.ctrl = "updateGrade"
  /\ IF req.id \notin DOMAIN grades
     THEN /\ grades' = grades
          /\ req' = Respond(req, "controller", 404)
     ELSE IF updateGradeDenied(req.user, grades[req.id])
     THEN /\ grades' = grades
          /\ req' = Respond(req, "controller", 403)
     ELSE /\ grades' = [grades EXCEPT ![req.id] = SequelizeUpdate(@, req.body)]
          /\ req' = [Respond(req, "controller", 200) EXCEPT !.rows = {req.id}]
  /\ UNCHANGED <<aside, users, students, teachers, guardians, attendance>>

RECURSIVE BulkCreate(_, _, _)
\* Grade.bulkCreate(rows): one row after the other gets the next id.
BulkCreate(gr, rows, i) ==
  IF i > Len(rows) THEN gr
  ELSE LET id == FreshId(GradeIdPool, DOMAIN gr)
       IN BulkCreate([g \in DOMAIN gr \cup {id} |->
                        IF g = id THEN GradeRow(rows[i]) ELSE gr[g]], rows, i + 1)

batchCreateGrades ==
  /\ req.stage = "controller" /\ req.route.ctrl = "batchCreateGrades"
  /\ LET rows == [i \in 1..Len(req.body.grades) |->
                    gradeDataOf(req.user, req.body.grades[i])]
     IN IF Len(rows) = 0
        THEN /\ grades' = grades
             /\ req' = Respond(req, "controller", 400)
        ELSE IF \A i \in 1..Len(rows) : HasTeacherId(rows[i])
        THEN /\ grades' = BulkCreate(grades, rows, 1)
             /\ req' = Respond(req, "controller", 201)
        ELSE /\ grades' = grades
             /\ req' = Respond(req, "controller", 500)
  /\ UNCHANGED <<aside, users, students, teachers, guardians, attendance>>

(***************************************************************************)
(* attendanceController.js                                                 *)
(***************************************************************************)
\* whereClause of getAllAttendance
getAllAttendanceWhere(user, query) ==
  [model |-> "Attendance",
   studentId |-> IF query.studentId # Undefined THEN query.studentId ELSE Absent,
   teacherId |-> IF user.role = "teacher" THEN user.teacherProfile ELSE Absent,
   date |-> dateBetween(query)]

getAllAttendance ==
  /\ req.stage = "controller" /\ req.route.ctrl = "getAllAttendance"
  /\ LET where == getAllAttendanceWhere(req.user, req.query)
         found == { a \in DOMAIN attendance : Matches(attendance[a], where) }
     IN \E outcome \in FindOutcomes(where) :
          req' = IF outcome = "throw"
                 THEN [Respond(req, "controller", 500) EXCEPT !.filter = where]
                 ELSE [Respond(req, "controller", 200) EXCEPT
                         !.filter = where, !.rows = found,
                         !.readStudents = { attendance[a].studentId : a \in found }]
  /\ UNCHANGED <<store, aside>>

\* attendanceData of markAttendance / each record of batchMarkAttendance
attendanceDataOf(user, body) ==
  IF user.role = "teacher" THEN WithField(body, "teacherId", user.teacherProfile)
  ELSE body

AttendanceRow(data) ==
  [studentId |-> data.studentId, classId |-> data.classId, date |-> data.date,
   teacherId |-> data.teacherId, status |-> data.status]

\* The find-then-update-or-create step shared by markAttendance and by each
\* turn of the loop of batchMarkAttendance; ok is FALSE when create throws.
MarkOne(att, data) ==
  LET existing == AttendanceFindOne(att, data)
  IN IF existing # {}
     THEN LET a == CHOOSE x \in existing : TRUE
          IN [att |-> [att EXCEPT ![a] = SequelizeUpdate(@, data)],
              ok |-> TRUE, created |-> FALSE, id |-> a]
     ELSE IF HasTeacherId(data)
     THEN LET id == FreshId(AttendanceIdPool, DOMAIN att)
          IN [att |-> [x \in DOMAIN att \cup {id} |->
                         IF x = id THEN AttendanceRow(data) ELSE att[x]],
              ok |-> TRUE, created |-> TRUE, id |-> id]
     ELSE [att |-> att, ok |-> FALSE, created |-> FALSE, id |-> Undefined]

markAttendance ==
  /\ req.stage = "controller" /\ req.route.ctrl = "markAttendance"
  /\ LET m == MarkOne(attendance, attendanceDataOf(req.user, req.body))
     IN /\ attendance' = m.att
        /\ req' = IF ~m.ok THEN Respond(req, "controller", 500)
                  ELSE [Respond(req, "controller", IF m.created THEN 201 ELSE 200)
                          EXCEPT !.rows = {m.id}]
  /\ UNCHANGED <<aside, users, students, teachers, guardians, grades>>

RECURSIVE MarkAll(_, _, _)
\* The for loop of batchMarkAttendance: records before a throwing create
\* stay written.
MarkAll(att, records, i) ==
  IF i > Len(records) THEN [att |-> att, ok |-> TRUE]
  ELSE LET m == MarkOne(att, records[i])
       IN IF m.ok THEN MarkAll(m.att, records, i + 1)
          ELSE [att |-> m.att, ok |-> FALSE]

\* A faulty batchMarkAttendance that runs the loop in a transaction and
\* rolls it back when a record fails.
batchMarkAttendanceInTransaction ==
  /\ req.stage = "controller" /\ req.route.ctrl = "batchMarkAttendance"
  /\ LET records == [i \in 1..Len(req.body.attendanceRecords) |->
                       attendanceDataOf(req.user, req.body.attendanceRecords[i])]
         m == MarkAll(attendance, records, 1)
     IN /\ attendance' = IF m.ok THEN m.att ELSE attendance
        /\ req' = Respond(req, "controller", IF m.ok THEN 200 ELSE 500)
  /\ UNCHANGED <<aside, users, students, teachers, guardians, grades>>

batchMarkAttendance ==
  /\ req.stage = "controller" /\ req.route.ctrl = "batchMarkAttendance"
  /\ LET records == [i \in 1..Len(req.body.attendanceRecords) |->
                       attendanceDataOf(req.user, req.body.attendanceRecords[i])]
     IN IF Len(records) = 0
        THEN /\ attendance' = attendance
             /\ req' = Respond(req, "controller", 400)
        ELSE LET m == MarkAll(attendance, records, 1)
             IN /\ attendance' = m.att
                /\ req' = Respond(req, "controller", IF m.ok THEN 200 ELSE 500)
  /\ UNCHANGED <<aside, users, students, teachers, guardians, grades>>

(***************************************************************************)
(* studentController.js                                                    *)
(***************************************************************************)
getStudentById ==
  /\ req.stage = "controller" /\ req.route.ctrl = "getStudentById"
  /\ req' = IF req.id \notin DOMAIN students
            THEN Respond(req, "controller", 404)
            ELSE [Respond(req, "controller", 200) EXCEPT !.readStudents = {req.id}]
  /\ UNCHANGED <<store, aside>>

getStudentGrades ==
  /\ req.stage = "controller" /\ req.route.ctrl = "getStudentGrades"
  /\ LET where == [model |-> "Grade", studentId |-> req.id, teacherId |-> Absent,
                   date |-> NoDate]
         found == { g \in DOMAIN grades : Matches(grades[g], where) }
     IN req' = [Respond(req, "controller", 200) EXCEPT
                  !.filter = where, !.rows = found,
                  !.readStudents = { grades[g].studentId : g \in found }]
  /\ UNCHANGED <<store, aside>>

getStudentAttendance ==
  /\ req.stage = "controller" /\ req.route.ctrl = "getStudentAttendance"
  /\ LET where == [model |-> "Attendance", studentId |-> req.id, teacherId |-> Absent,
                   date |-> dateBetween(req.query)]
         found == { a \in DOMAIN attendance : Matches(attendance[a], where) }
     IN req' = [Respond(req, "controller", 200) EXCEPT
                  !.filter = where, !.rows = found,
                  !.readStudents = { attendance[a].studentId : a \in found }]
  /\ UNCHANGED <<store, aside>>

createStudent ==
  /\ req.stage = "controller" /\ req.route.ctrl = "createStudent"
  /\ LET studentNumber == Cardinality(DOMAIN students) + 1
         id == FreshId(StudentIdPool, DOMAIN students)
     IN IF \E s \in DOMAIN students : students[s].studentNumber = studentNumber
        THEN /\ students' = students
             /\ req' = Respond(req, "controller", 500)
        ELSE /\ students' = [s \in DOMAIN students \cup {id} |->
                               IF s = id
                               THEN [userId |-> Null, studentNumber |-> studentNumber,
                                     classId |-> req.body.classId, status |-> "active"]
                               ELSE students[s]]
             /\ req' = [Respond(req, "controller", 201) EXCEPT !.rows = {id}]
  /\ UNCHANGED <<aside, users, teachers, guardians, grades, attendance>>

updateStudent ==
  /\ req.stage = "controller" /\ req.route.ctrl = "updateStudent"
  /\ IF req.id \notin DOMAIN students
     THEN /\ students' = students
          /\ req' = Respond(req, "controller", 404)
     ELSE /\ students' = [students EXCEPT ![req.id] = SequelizeUpdate(@, req.body)]
          /\ req' = [Respond(req, "controller", 200) EXCEPT !.rows = {req.id}]
  /\ UNCHANGED <<aside, users, teachers, guardians, grades, attendance>>

\* A deleteStudent that removes the row (student.destroy()) instead of
\* updating its status.
deleteStudentDestroy ==
  /\ req.stage = "controller" /\ req.route.ctrl = "deleteStudent"
  /\ IF req.id \notin DOMAIN students
     THEN /\ students' = students
          /\ req' = Respond(req, "controller", 404)
     ELSE /\ students' = [s \in DOMAIN students \ {req.id} |-> students[s]]
          /\ req' = [Respond(req, "controller", 200) EXCEPT !.rows = {req.id}]
  /\ UNCHANGED <<aside, users, teachers, guardians, grades, attendance>>

deleteStudent ==
  /\ req.stage = "controller" /\ req.route.ctrl = "deleteStudent"
  /\ IF req.id \notin DOMAIN students
     THEN /\ students' = students
          /\ req' = Respond(req, "controller", 404)
     ELSE /\ students' = [students EXCEPT ![req.id].status = "withdrawn"]
          /\ req' = [Respond(req, "controller", 200) EXCEPT !.rows = {req.id}]
  /\ UNCHANGED <<aside, users, teachers, guardians, grades, attendance>>

(***************************************************************************)
(* teacherController.js                                                    *)
(***************************************************************************)
\* The teacher controllers that answer 404 when Teacher.findByPk finds no row.
TeacherByPkControllers == {"getTeacherById", "getTeacherClasses", "getTeacherSubjects",
                           "getTeacherSchedule", "getTeacherDashboard"}

TeacherByPkRead ==
  /\ req.stage = "controller" /\ req.route.ctrl \in TeacherByPkControllers
  /\ req' = IF req.id \notin DOMAIN teachers
            THEN Respond(req, "controller", 404)
            ELSE [Respond(req, "controller", 200) EXCEPT !.rows = {req.id}]
  /\ UNCHANGED <<store, aside>>

getTeacherGrades ==
  /\ req.stage = "controller" /\ req.route.ctrl = "getTeacherGrades"
  /\ LET where == [model |-> "Grade", studentId |-> Absent, teacherId |-> req.id,
                   date |-> dateBetween(req.query)]
         found == { g \in DOMAIN grades : Matches(grades[g], where) }
     IN req' = [Respond(req, "controller", 200) EXCEPT
                  !.filter = where, !.rows = found,
                  !.readStudents = { grades[g].studentId : g \in found }]
  /\ UNCHANGED <<store, aside>>

getTeacherAttendance ==
  /\ req.stage = "controller" /\ req.route.ctrl = "getTeacherAttendance"
  /\ LET where == [model |-> "Attendance", studentId |-> Absent, teacherId |-> req.id,
                   date |-> dateBetween(req.query)]
         found == { a \in DOMAIN attendance : Matches(attendance[a], where) }
     IN req' = [Respond(req, "controller", 200) EXCEPT
                  !.filter = where, !.rows = found,
                  !.readStudents = { attendance[a].studentId : a \in found }]
  /\ UNCHANGED <<store, aside>>

\* allowNull: false on Teacher.userId
HasUserId(data) ==
  /\ "userId" \in DOMAIN data
  /\ data.userId \notin {Undefined, Null}

createTeacher ==
  /\ req.stage = "controller" /\ req.route.ctrl = "createTeacher"
  /\ LET data == WithField(req.body, "employeeNumber", Cardinality(DOMAIN teachers) + 1)
         id == FreshId(TeacherIdPool, DOMAIN teachers)
     IN IF HasUserId(data)
        THEN /\ teachers' = [t \in DOMAIN teachers \cup {id} |->
                               IF t = id
                               THEN [userId |-> data.userId,
                                     employeeNumber |-> data.employeeNumber,
                                     classes |-> {}, status |-> "active"]
                               ELSE teachers[t]]
             /\ req' = [Respond(req, "controller", 201) EXCEPT !.rows = {id}]
        ELSE /\ teachers' = teachers
             /\ req' = Respond(req, "controller", 500)
  /\ UNCHANGED <<aside, users, students, guardians, grades, attendance>>

updateTeacher ==
  /\ req.stage = "controller" /\ req.route.ctrl = "updateTeacher"
  /\ IF req.id \notin DOMAIN teachers
     THEN /\ teachers' = teachers
          /\ req' = Respond(req, "controller", 404)
     ELSE /\ teachers' = [teachers EXCEPT ![req.id] = SequelizeUpdate(@, req.body)]
          /\ req' = [Respond(req, "controller", 200) EXCEPT !.rows = {req.id}]
  /\ UNCHANGED <<aside, users, students, guardians, grades, attendance>>

deleteTeacher ==
  /\ req.stage = "controller" /\ req.route.ctrl = "deleteTeacher"
  /\ IF req.id \notin DOMAIN teachers
     THEN /\ teachers' = teachers
          /\ req' = Respond(req, "controller", 404)
     ELSE /\ teachers' = [teachers EXCEPT ![req.id].status = "terminated"]
          /\ req' = [Respond(req, "controller", 200) EXCEPT !.rows = {req.id}]
  /\ UNCHANGED <<aside, users, students, guardians, grades, attendance>>

(***************************************************************************)
(* authController.js, the remaining read handlers and the route stubs      *)
(***************************************************************************)
\* req.userId, which no middleware assigns.
ReqUserId == Undefined

\* generateTokens(userId).refreshToken at second t: jwt.sign({ userId }, secret,
\* { expiresIn }) is a function of the payload and of iat, the time in whole
\* seconds.
generateTokens(userId, t) == userId \o "@" \o ToString(t)

\* User.update({ refreshToken: null }, { where: { id: req.userId } })
logout ==
  /\ req.stage = "controller" /\ req.route.ctrl = "logout"
  /\ \E outcome \in {"throw", "null"} :
       IF outcome = "throw"
       THEN /\ users' = users
            /\ req' = Respond(req, "controller", 500)
       ELSE /\ users' = [u \in DOMAIN users |->
                           IF u = ReqUserId THEN [users[u] EXCEPT !.refreshToken = Null]
                           ELSE users[u]]
            /\ req' = Respond(req, "controller", 200)
  /\ UNCHANGED <<aside, students, teachers, guardians, grades, attendance>>

\* Handlers that read the store and answer 200.
ReadHandler ==
  /\ req.stage = "controller" /\ req.route.ctrl = "read"
  /\ req' = Respond(req, "controller", 200)
  /\ UNCHANGED <<store, aside>>

\* Inline route handlers that answer a fixed message and touch nothing.
StubHandler ==
  /\ req.stage = "controller" /\ req.route.ctrl = "stub"
  /\ req' = Respond(req, "controller", 200)
  /\ UNCHANGED <<store, aside>>

(***************************************************************************)
(* The server                                                              *)
(***************************************************************************)
\* Number of requests handled at the same time in SpecConcurrent.
MaxClients == 2

Clients == 1..MaxClients

\* Last value a clock reading takes: the second of a token's iat, the
\* millisecond of Date.now().
MaxClock == 3

\* A request of SpecConcurrent: the handler it is in (op), how far the
\* handler has come (pc), what its lookup found, the status answered,
\* whether a unique index rejected its insert, its rank among the writes, and
\* the row count its createStudent read.
IdleClient ==
  [op |-> "none", pc |-> "idle", user |-> NoUser, body |-> EmptyBody,
   found |-> {}, status |-> 0, conflict |-> FALSE, order |-> 0, count |-> 0]

\* No helper call is in progress.
IdleCalc == [fn |-> "none"]

\* No refresh token has been issued yet and no auth request answered.
NoSessions ==
  [issued |-> {}, spent |-> {}, loggedOut |-> {},
   last |-> [op |-> "none", status |-> 0, token |-> Null, user |-> Undefined,
             spentBefore |-> FALSE, loggedOutBefore |-> FALSE]]

Init ==
  /\ inflight = [c \in Clients |-> IdleClient]
  /\ calc = IdleCalc
  /\ now = 1
  /\ auth = NoSessions
  /\ users = SeedUsers
  /\ students = SeedStudents
  /\ teachers = SeedTeachers
  /\ guardians = SeedGuardians
  /\ grades = SeedGrades
  /\ attendance = SeedAttendance
  /\ req = IdleReq

Next ==
  \/ ReceiveRequest
  \/ EndResponse
  \/ RunAuthenticateToken
  \/ RunAuthorize
  \/ RunValidateParams
  \/ RunValidateQuery
  \/ RunValidate
  \/ RunRouteGuard
  \/ getAllGrades
  \/ createGrade
  \/ updateGrade
  \/ batchCreateGrades
  \/ getAllAttendance
  \/ markAttendance
  \/ batchMarkAttendance
  \/ getStudentById
  \/ getStudentGrades
  \/ getStudentAttendance
  \/ createStudent
  \/ updateStudent
  \/ deleteStudent
  \/ TeacherByPkRead
  \/ getTeacherGrades
  \/ getTeacherAttendance
  \/ createTeacher
  \/ updateTeacher
  \/ deleteTeacher
  \/ logout
  \/ ReadHandler
  \/ StubHandler

Spec == Init /\ [][Next]_vars

(***************************************************************************)
(* Two requests handled at the same time: every await of a handler is a    *)
(* point where the other request can run.  The handlers are markAttendance *)
(* and the public POST /api/auth/register.                                 *)
(***************************************************************************)
Finish(c, code) ==
  [inflight EXCEPT ![c].pc = "done", ![c].status = code]

\* Rank of the next write among the writes made so far.
NextOrder == 1 + Cardinality({ c \in Clients : inflight[c].order > 0 })

\* Bodies of the concurrent marks: those of AttendanceBodies and the same
\* with status late, so that two writers can be told apart.
ConcurrentMarkBodies ==
  AttendanceBodies \cup { [b EXCEPT !.status = "late"] : b \in AttendanceBodies }

\* POST /api/attendance has passed authenticateToken, authorize and validate.
ClientSendsMark(c) ==
  /\ inflight[c].pc = "idle"
  /\ \E tok \in Tokens, b \in ConcurrentMarkBodies :
       /\ authenticateToken(tok).status = 0
       /\ authorize(AdminTeacher, authenticateToken(tok).user) = 0
       /\ SchemaAccepts("attendance", b)
       /\ inflight' = [inflight EXCEPT ![c] =
            [IdleClient EXCEPT !.op = "markAttendance", !.pc = "start",
                               !.user = authenticateToken(tok).user, !.body = b]]
  /\ UNCHANGED <<store, req, calc, now, auth>>

\* await Attendance.findOne(...) of markAttendance
MarkFind(c) ==
  /\ inflight[c].op = "markAttendance" /\ inflight[c].pc = "start"
  /\ LET data == attendanceDataOf(inflight[c].user, inflight[c].body)
     IN inflight' = [inflight EXCEPT ![c].pc = "found",
                                     ![c].found = AttendanceFindOne(attendance, data)]
  /\ UNCHANGED <<store, req, calc, now, auth>>

\* await existingAttendance.update(...) or await Attendance.create(...):
\* create validates the row (allowNull) and then inserts it, which the
\* unique index on (studentId, classId, date) rejects when the key is taken.
MarkWrite(c) ==
  /\ inflight[c].op = "markAttendance" /\ inflight[c].pc = "found"
  /\ LET data == attendanceDataOf(inflight[c].user, inflight[c].body)
     IN IF inflight[c].found # {}
        THEN LET a == CHOOSE x \in inflight[c].found : TRUE
             IN /\ attendance' = [attendance EXCEPT ![a] = SequelizeUpdate(@, data)]
                /\ inflight' = [Finish(c, 200) EXCEPT ![c].order = NextOrder]
        ELSE IF ~HasTeacherId(data)
        THEN /\ attendance' = attendance
             /\ inflight' = Finish(c, 500)
        ELSE IF AttendanceFindOne(attendance, data) # {}
        THEN /\ attendance' = attendance
             /\ inflight' = [Finish(c, 500) EXCEPT ![c].conflict = TRUE]
        ELSE LET id == FreshId(AttendanceIdPool, DOMAIN attendance)
             IN /\ attendance' = [x \in DOMAIN attendance \cup {id} |->
                                    IF x = id THEN AttendanceRow(data) ELSE attendance[x]]
                /\ inflight' = [Finish(c, 201) EXCEPT ![c].order = NextOrder]
  /\ UNCHANGED <<users, students, teachers, guardians, grades, req, calc, now, auth>>

\* POST /api/students has passed authenticateToken, authorize(['admin']) and
\* validate(schemas.student).
ClientSendsCreateStudent(c) ==
  /\ inflight[c].pc = "idle"
  /\ \E tok \in Tokens, cls \in {"C1", "C2"} :
       LET b == [kind |-> "student", classId |-> cls, gender |-> "female"]
       IN /\ authenticateToken(tok).status = 0
          /\ authorize({"admin"}, authenticateToken(tok).user) = 0
          /\ SchemaAccepts("student", b)
          /\ inflight' = [inflight EXCEPT ![c] =
               [IdleClient EXCEPT !.op = "createStudent", !.pc = "start",
                                  !.user = authenticateToken(tok).user, !.body = b]]
  /\ UNCHANGED <<store, req, calc, now, auth>>

\* const studentCount = await Student.count() of createStudent
StudentCount(c) ==
  /\ inflight[c].op = "createStudent" /\ inflight[c].pc = "start"
  /\ inflight' = [inflight EXCEPT ![c].pc = "found",
                                  ![c].count = Cardinality(DOMAIN students)]
  /\ UNCHANGED <<store, req, calc, now, auth>>

\* studentNumber = STU<year><count + 1>; await Student.create(...).  The
\* Student model decides whether studentNumber has a unique index: with one
\* the insert of a taken number is rejected and the handler answers 500,
\* without one the row is stored with the number another row has.
StudentCreate(c) ==
  /\ inflight[c].op = "createStudent" /\ inflight[c].pc = "found"
  /\ \E unique \in BOOLEAN :
       LET studentNumber == inflight[c].count + 1
           id == FreshId(StudentIdPool, DOMAIN students)
       IN IF unique /\ \E s \in DOMAIN students :
                         students[s].studentNumber = studentNumber
          THEN /\ students' = students
               /\ inflight' = [Finish(c, 500) EXCEPT ![c].conflict = TRUE]
          ELSE /\ students' = [s \in DOMAIN students \cup {id} |->
                                 IF s = id
                                 THEN [userId |-> Null, studentNumber |-> studentNumber,
                                       classId |-> inflight[c].body.classId,
                                       status |-> "active"]
                                 ELSE students[s]]
               /\ inflight' = [Finish(c, 201) EXCEPT ![c].order = NextOrder,
                                                      ![c].found = {id}]
  /\ UNCHANGED <<users, teachers, guardians, grades, attendance, req, calc, now, auth>>

\* Bodies of POST /api/auth/register: a taken or one of two free emails and usernames,
\* any role, and a role the schema does not list.
RegisterBodies ==
  { [kind |-> "register", email |-> e, username |-> e, role |-> r] :
      e \in {"uAdmin", "uFresh", "uFresh2"}, r \in Roles \cup {"bogus"} }

\* schemas.register
JoiRegister(b) == b.role \in Roles

\* POST /api/auth/register: no authenticateToken; validate(schemas.register)
\* answers 400 or hands the body to the controller.
ClientSendsRegister(c) ==
  /\ inflight[c].pc = "idle"
  /\ \E b \in RegisterBodies :
       inflight' = [inflight EXCEPT ![c] =
          IF JoiRegister(b)
          THEN [IdleClient EXCEPT !.op = "register", !.pc = "start", !.body = b]
          ELSE [IdleClient EXCEPT !.op = "register", !.pc = "done", !.body = b,
                                  !.status = 400]]
  /\ UNCHANGED <<store, req, calc, now, auth>>

\* The users that have the email or the username of body b.
UsersLike(b) ==
  { u \in DOMAIN users : users[u].email = b.email \/ users[u].username = b.username }

\* await User.findOne({ where: { $or: [{ email }, { username }] } }): with
\* string operator aliases the query runs; without them Sequelize rejects or
\* the database fails the query and the handler's catch answers 500.
RegisterFind(c) ==
  /\ inflight[c].op = "register" /\ inflight[c].pc = "start"
  /\ \E outcome \in {"aliases", "throw"} :
       inflight' =
         IF outcome = "throw" THEN Finish(c, 500)
         ELSE IF UsersLike(inflight[c].body) # {}
         THEN [Finish(c, 409) EXCEPT ![c].found = UsersLike(inflight[c].body)]
         ELSE [inflight EXCEPT ![c].pc = "found"]
  /\ UNCHANGED <<store, req, calc, now, auth>>

\* STU${Date.now()} and EMP${Date.now()}: the numbers register generates
\* from the millisecond clock, apart from those generated from a row count.
DateNowNumber(ms) == 1000 + ms

\* await User.create(...), await <Profile>.create(...) of the role, await
\* user.update({ refreshToken }), each in the same try block with no
\* transaction.  The unique indexes on email and username reject a taken
\* value; the unique index on Teacher.employeeNumber, and the one the
\* Student model may have on studentNumber, reject a number another register
\* generated in the same millisecond.  Either way the catch answers 500, and
\* a User row already inserted stays, with the refreshToken never saved.
RegisterCreate(c) ==
  /\ inflight[c].op = "register" /\ inflight[c].pc = "found"
  /\ \E ms \in 1..MaxClock, unique \in BOOLEAN :
     LET b == inflight[c].body
         id == FreshId(UserIdPool, DOMAIN users)
         number == DateNowNumber(ms)
         profileRejected ==
           \/ /\ b.role = "teacher"
              /\ \E t \in DOMAIN teachers : teachers[t].employeeNumber = number
           \/ /\ b.role = "student" /\ unique
              /\ \E x \in DOMAIN students : students[x].studentNumber = number
     IN IF UsersLike(b) # {}
        THEN /\ inflight' = [Finish(c, 500) EXCEPT ![c].conflict = TRUE]
             /\ UNCHANGED <<users, students, teachers, guardians>>
        ELSE /\ inflight' =
                  IF profileRejected
                  THEN [Finish(c, 500) EXCEPT ![c].conflict = TRUE,
                                              ![c].order = NextOrder,
                                              ![c].found = {id}]
                  ELSE [Finish(c, 201) EXCEPT ![c].order = NextOrder,
                                              ![c].found = {id}]
             /\ users' = [u \in DOMAIN users \cup {id} |->
                            IF u = id
                            THEN [refreshToken |-> IF profileRejected THEN Null
                                                   ELSE generateTokens(id, now),
                                  email |-> b.email,
                                  username |-> b.username, role |-> b.role,
                                  isActive |-> TRUE]
                            ELSE users[u]]
             /\ students' =
                  IF b.role # "student" \/ profileRejected THEN students
                  ELSE LET sid == FreshId(StudentIdPool, DOMAIN students)
                       IN [x \in DOMAIN students \cup {sid} |->
                             IF x = sid
                             THEN [userId |-> id, studentNumber |-> number,
                                   classId |-> Null, status |-> "active"]
                             ELSE students[x]]
             /\ teachers' =
                  IF b.role # "teacher" \/ profileRejected THEN teachers
                  ELSE LET tid == FreshId(TeacherIdPool, DOMAIN teachers)
                       IN [x \in DOMAIN teachers \cup {tid} |->
                             IF x = tid
                             THEN [userId |-> id, employeeNumber |-> number,
                                   classes |-> {}, status |-> "active"]
                             ELSE teachers[x]]
             /\ guardians' =
                  IF b.role # "parent" THEN guardians
                  ELSE LET gid == FreshId(GuardianIdPool, DOMAIN guardians)
                       IN [x \in DOMAIN guardians \cup {gid} |->
                             IF x = gid THEN [userId |-> id, children |-> {}]
                             ELSE guardians[x]]
  /\ UNCHANGED <<grades, attendance, req, calc, now, auth>>

NextConcurrent ==
  \/ \E c \in Clients : ClientSendsMark(c)
  \/ \E c \in Clients : MarkFind(c)
  \/ \E c \in Clients : MarkWrite(c)
  \/ \E c \in Clients : ClientSendsRegister(c)
  \/ \E c \in Clients : RegisterFind(c)
  \/ \E c \in Clients : RegisterCreate(c)
  \/ \E c \in Clients : ClientSendsCreateStudent(c)
  \/ \E c \in Clients : StudentCount(c)
  \/ \E c \in Clients : StudentCreate(c)

SpecConcurrent == Init /\ [][NextConcurrent]_vars

(***************************************************************************)
(* utils/helpers.js and the computations of the statistics handlers        *)
(***************************************************************************)
\* Longest list of grades or attendance records passed to a helper.
MaxList == 3

\* Largest page number asked for.
MaxPage == 4

\* Grade values at and around the bucket limits.
GradeValues == {0, 59, 60, 69, 70, 84, 85, 100}

SeqsUpTo(S, n) == UNION { [1..k -> S] : k \in 0..n }

\* array.filter(pred).length
CountOf(list, Pred(_)) == Cardinality({ i \in 1..Len(list) : Pred(list[i]) })

RECURSIVE SumOf(_, _, _)
\* list.reduce((sum, x) => sum + F(x), 0), from index i on
SumOf(list, F(_), i) ==
  IF i > Len(list) THEN 0 ELSE F(list[i]) + SumOf(list, F, i + 1)

\* Math.round(a / b) for a >= 0, b > 0
RoundDiv(a, b) == (2 * a + b) \div (2 * b)

\* A Math.ceil that rounds down.
FloorDiv(a, b) == a \div b

\* Math.ceil(a / b) for a >= 0, b > 0
CeilDiv(a, b) == (a + b - 1) \div b

Buckets == {"excellent", "good", "satisfactory", "unsatisfactory"}

\* The distribution object built from gradeValues
Distribution(gradeValues) ==
  [b \in Buckets |->
     CASE b = "excellent" -> CountOf(gradeValues, LAMBDA g : g >= 85)
       [] b = "good" -> CountOf(gradeValues, LAMBDA g : g >= 70 /\ g < 85)
       [] b = "satisfactory" -> CountOf(gradeValues, LAMBDA g : g >= 60 /\ g < 70)
       [] b = "unsatisfactory" -> CountOf(gradeValues, LAMBDA g : g < 60)]

\* statistics of getGradeStatistics: total and distribution; for no grades
\* the distribution is {}, an object without keys.
getGradeStatistics(gradeValues) ==
  IF Len(gradeValues) = 0
  THEN [total |-> 0, distribution |-> [b \in {} |-> 0]]
  ELSE [total |-> Len(gradeValues), distribution |-> Distribution(gradeValues)]

\* ReportService.analyzeGrades: totalGrades and distribution
analyzeGrades(gradeValues) ==
  IF Len(gradeValues) = 0
  THEN [total |-> 0, distribution |-> [b \in Buckets |-> 0]]
  ELSE [total |-> Len(gradeValues), distribution |-> Distribution(gradeValues)]

\* Helpers.getGradeLevel(gradeValue).level
getGradeLevel(gradeValue) ==
  IF gradeValue >= 85 THEN "excellent"
  ELSE IF gradeValue >= 70 THEN "good"
  ELSE IF gradeValue >= 60 THEN "satisfactory"
  ELSE "unsatisfactory"

\* Weights are counted in halves: 2 is the weight 1.0, 1 the weight 0.5.
WeightUnit == 2

\* Grades passed to calculateGPA; hasWeight is FALSE when grade.weight is
\* absent.
GpaGrades ==
  { [gradeValue |-> v, hasWeight |-> TRUE, weight |-> w] :
      v \in {0, 80, 90}, w \in {0, 1, WeightUnit} }
  \cup { [gradeValue |-> v, hasWeight |-> FALSE, weight |-> 0] : v \in {0, 80, 90} }

\* grade.weight || 1
WeightOrOne(grade) ==
  IF grade.hasWeight /\ grade.weight # 0 THEN grade.weight ELSE WeightUnit

\* Helpers.calculateGPA(grades, useWeights), in hundredths
calculateGPA(gradeList, useWeights) ==
  IF Len(gradeList) = 0 THEN 0
  ELSE IF useWeights
  THEN LET totalPoints == SumOf(gradeList, LAMBDA g : g.gradeValue * WeightOrOne(g), 1)
           totalWeight == SumOf(gradeList, WeightOrOne, 1)
       IN IF totalWeight > 0 THEN RoundDiv(100 * totalPoints, totalWeight) ELSE 0
  ELSE RoundDiv(100 * SumOf(gradeList, LAMBDA g : g.gradeValue, 1), Len(gradeList))

\* A rate that is a JavaScript number, in hundredths.
NumberRate(n) == [type |-> "number", hundredths |-> 100 * n]

\* present + late of a list of statuses
AttendedDays(statuses) ==
  CountOf(statuses, LAMBDA a : a = "present") + CountOf(statuses, LAMBDA a : a = "late")

\* Helpers.calculateAttendanceRate(attendanceRecords).rate
calculateAttendanceRate(statuses) ==
  IF Len(statuses) = 0 THEN NumberRate(0)
  ELSE NumberRate(RoundDiv(100 * AttendedDays(statuses), Len(statuses)))

\* summary.attendanceRate of getAttendanceReport
getAttendanceReportRate(statuses) ==
  IF Len(statuses) > 0
  THEN NumberRate(RoundDiv(100 * AttendedDays(statuses), Len(statuses)))
  ELSE NumberRate(0)

\* stats.attendanceRate of getStudentAttendance: toFixed(2) gives a string
\* with two decimals.
getStudentAttendanceRate(statuses) ==
  IF Len(statuses) > 0
  THEN [type |-> "string",
        hundredths |-> RoundDiv(10000 * AttendedDays(statuses), Len(statuses))]
  ELSE NumberRate(0)

\* Helpers.getAcademicYearForDate / getCurrentAcademicYear: `${a}-${b}`
getAcademicYearForDate(date) ==
  IF date.month >= 9 THEN <<date.year, date.year + 1>>
  ELSE <<date.year - 1, date.year>>

\* Helpers.getSemesterForDate / getCurrentSemester
getSemesterForDate(date) ==
  IF date.month >= 9 \/ date.month <= 1 THEN 1
  ELSE IF date.month >= 2 /\ date.month <= 6 THEN 2
  ELSE 1

\* academicYear and semester of getTeacherDashboard
getTeacherDashboardPeriod(date) ==
  [academicYear |-> IF date.month >= 9 THEN <<date.year, date.year + 1>>
                    ELSE <<date.year - 1, date.year>>,
   semester |-> IF date.month >= 9 \/ date.month <= 1 THEN 1 ELSE 2]

\* Helpers.paginate(page, limit, total)
paginate(page, limit, total) ==
  LET pageNum == IF page >= 1 THEN page ELSE 1
      limitNum == IF limit > 100 THEN 100 ELSE IF limit >= 1 THEN limit ELSE 1
      offset == (pageNum - 1) * limitNum
      totalPages == CeilDiv(total, limitNum)
  IN [offset |-> offset, totalPages |-> totalPages,
      hasNext |-> pageNum < totalPages, hasPrev |-> pageNum > 1]

\* const { page = 1, limit = 10 } = req.query; offset = (page - 1) * limit
getAllGradesOffset(q) ==
  LET page == IF q.hasPage THEN q.page ELSE 1
      limit == IF q.hasLimit THEN q.limit ELSE 10
  IN (page - 1) * limit

\* A call of fn with argument arg has returned out.
Returned(fn, arg, out) ==
  /\ calc.fn = "none"
  /\ calc' = [fn |-> fn, arg |-> arg, out |-> out]
  /\ UNCHANGED <<store, req, inflight, now, auth>>

CallGradeStatistics ==
  \E g \in SeqsUpTo(GradeValues, MaxList) :
    \/ Returned("getGradeStatistics", g, getGradeStatistics(g))
    \/ Returned("analyzeGrades", g, analyzeGrades(g))

CallCalculateGPA ==
  \E g \in SeqsUpTo(GpaGrades, MaxList), useWeights \in BOOLEAN :
    Returned("calculateGPA", [grades |-> g, useWeights |-> useWeights],
             calculateGPA(g, useWeights))

CallAttendanceRate ==
  \E a \in SeqsUpTo(AttendanceStatuses, MaxList) :
    \/ Returned("calculateAttendanceRate", a, calculateAttendanceRate(a))
    \/ Returned("getAttendanceReport", a, getAttendanceReportRate(a))
    \/ Returned("getStudentAttendance", a, getStudentAttendanceRate(a))

CallPeriod ==
  \E d \in [year : {2024, 2025}, month : 1..12, day : {1, 15}] :
    \/ Returned("HelpersPeriod", d,
                [academicYear |-> getAcademicYearForDate(d),
                 semester |-> getSemesterForDate(d)])
    \/ Returned("getTeacherDashboard", d, getTeacherDashboardPeriod(d))

\* page and limit as they pass validateQuery; for getAllGrades either one
\* may be left out of the query.
CallPagination ==
  \E page \in 1..MaxPage, limit \in {1, 10, 20, 100} :
    \/ \E total \in {0, 1, 9, 10, 11, 25} :
         Returned("paginate", [page |-> page, limit |-> limit, total |-> total],
                  paginate(page, limit, total))
    \/ \E hasPage \in BOOLEAN, hasLimit \in BOOLEAN :
         LET q == [hasPage |-> hasPage, page |-> page,
                   hasLimit |-> hasLimit, limit |-> limit]
         IN Returned("getAllGrades", q, getAllGradesOffset(q))

\* The caller has consumed the result.
ReturnCalc ==
  /\ calc.fn # "none"
  /\ calc' = IdleCalc
  /\ UNCHANGED <<store, req, inflight, now, auth>>

NextHelpers ==
  \/ CallGradeStatistics
  \/ CallCalculateGPA
  \/ CallAttendanceRate
  \/ CallPeriod
  \/ CallPagination
  \/ ReturnCalc

SpecHelpers == Init /\ [][NextHelpers]_vars

(***************************************************************************)
(* login, refresh and logout of authController.js                          *)
(***************************************************************************)
\* A second passes.
Tick ==
  /\ now < MaxClock
  /\ now' = now + 1
  /\ UNCHANGED <<store, req, inflight, calc, auth>>

\* The response of an auth handler, with what was known of the presented
\* token and of its user before the request.
AuthAnswer(op, user, token, code) ==
  [op |-> op, status |-> code, token |-> token, user |-> user,
   spentBefore |-> token \in auth.spent,
   loggedOutBefore |-> user \in auth.loggedOut]

\* decoded.userId of jwt.verify(token, secret); Undefined when verify throws.
JwtDecode(token) ==
  IF \E u \in UserIds, t \in 1..MaxClock : generateTokens(u, t) = token
  THEN CHOOSE u \in UserIds : \E t \in 1..MaxClock : generateTokens(u, t) = token
  ELSE Undefined

\* POST /login: 401 for a wrong password or an inactive user; otherwise the
\* new refresh token replaces the stored one.
login ==
  \E u \in {"uAdmin", "uStud1", "uOffAdmin"}, isValidPassword \in BOOLEAN :
    LET tokens == generateTokens(u, now)
        old == users[u].refreshToken
    IN /\ IF ~isValidPassword \/ ~users[u].isActive
          THEN /\ users' = users
               /\ auth' = [auth EXCEPT !.last = AuthAnswer("login", u, Null, 401)]
          ELSE /\ users' = [users EXCEPT ![u].refreshToken = tokens]
               /\ auth' = [auth EXCEPT
                             !.issued = @ \cup {tokens},
                             !.spent = @ \cup ({old} \ {Null, tokens}),
                             !.loggedOut = @ \ {u},
                             !.last = [AuthAnswer("login", u, Null, 200)
                                         EXCEPT !.token = tokens]]
       /\ UNCHANGED <<students, teachers, guardians, grades, attendance,
                      req, inflight, calc, now>>

\* POST /refresh: 403 unless the token verifies and equals the stored one;
\* otherwise a new refresh token replaces it.
refreshTokenHandler ==
  \E token \in auth.issued \cup {"forged"} :
    LET userId == JwtDecode(token)
    IN /\ IF userId = Undefined \/ userId \notin DOMAIN users
          THEN /\ users' = users
               /\ auth' = [auth EXCEPT !.last = AuthAnswer("refresh", userId, token, 403)]
          ELSE IF users[userId].refreshToken # token
          THEN /\ users' = users
               /\ auth' = [auth EXCEPT !.last = AuthAnswer("refresh", userId, token, 403)]
          ELSE /\ users' = [users EXCEPT ![userId].refreshToken = generateTokens(userId, now)]
               /\ auth' = [auth EXCEPT
                             !.issued = @ \cup {generateTokens(userId, now)},
                             !.spent = @ \cup {token},
                             !.last = AuthAnswer("refresh", userId, token, 200)]
       /\ UNCHANGED <<students, teachers, guardians, grades, attendance,
                      req, inflight, calc, now>>

\* POST /logout of an authenticated user u: authenticateToken, then
\* User.update({ refreshToken: null }, { where: { id: req.userId } }).
logoutHandler ==
  \E u \in {"uAdmin", "uStud1"}, outcome \in {"throw", "null"} :
    /\ authenticateToken([kind |-> "signed", userId |-> u]).status = 0
    /\ IF outcome = "throw"
       THEN /\ users' = users
            /\ auth' = [auth EXCEPT !.last = AuthAnswer("logout", u, Null, 500)]
       ELSE /\ users' = [x \in DOMAIN users |->
                           IF x = ReqUserId THEN [users[x] EXCEPT !.refreshToken = Null]
                           ELSE users[x]]
            /\ auth' = [auth EXCEPT !.loggedOut = @ \cup {u},
                                    !.last = AuthAnswer("logout", u, Null, 200)]
    /\ UNCHANGED <<students, teachers, guardians, grades, attendance,
                   req, inflight, calc, now>>

NextAuth ==
  \/ Tick
  \/ login
  \/ refreshTokenHandler
  \/ logoutHandler

SpecAuth == Init /\ [][NextAuth]_vars

(***************************************************************************)
(* Properties                                                              *)
(***************************************************************************)
Done == req.stage = "done"

HandlerRan == "controller" \in req.ran

\* The token authenticates nobody: missing, rejected by jwt.verify, or
\* naming a user that does not exist or is not active.
Unauthenticated(token) ==
  \/ token.kind \in {"none", "malformed", "expired"}
  \/ token.userId \notin DOMAIN users
  \/ ~users[token.userId].isActive

ListingControllers == {"getAllGrades", "getAllAttendance"}

\* Create, update and delete routes of students, teachers, grades, attendance.
IsWrite(r) ==
  /\ r \in StudentRoutes \cup TeacherRoutes \cup GradeRoutes \cup AttendanceRoutes
  /\ r.method # "GET"

\* The students linked to the guardian profile of user uid.
ChildrenOf(uid) ==
  IF GuardianProfileOf(uid) = Undefined THEN {}
  ELSE guardians[GuardianProfileOf(uid)].children

\* C1: authentication decides first on every protected route: a request
\* with no token, an invalid or expired token, or a token of a missing or
\* inactive user is rejected by authenticateToken (401 or 403), and neither
\* authorize, nor an inline role guard, nor a controller runs for it; no
\* middleware runs before authenticateToken has.
C1_AuthenticationFirst ==
  /\ req.stage \notin {"idle", "authenticateToken"} => "authenticateToken" \in req.ran
  /\ req.ran # {} => "authenticateToken" \in req.ran
  /\ (req.stage # "idle" /\ Unauthenticated(req.token)) =>
       /\ req.stage \in {"authenticateToken", "done"}
       /\ req.ran \subseteq {"authenticateToken"}
       /\ ~req.user.found
       /\ Done => req.status \in {401, 403}

\* An inactive admin's request to an admin-only route has been answered 401.
C1_Witness ==
  /\ Done
  /\ req.token.userId = "uOffAdmin"
  /\ users["uOffAdmin"].role = "admin" /\ ~users["uOffAdmin"].isActive
  /\ req.route.authz = {"admin"}
  /\ req.status = 401

\* C2 as stated: an authenticated active admin is never answered 403 by a
\* role check or an ownership check, on any route.
C2_AdminNeverDenied ==
  (Done /\ req.user.found /\ req.user.role = "admin") => req.status # 403

\* C2 amended: an authenticated active admin is never answered 403 on any
\* route other than GET /api/reports/parent-summary, whose authorize list is
\* the parent role alone.
C2_AdminNeverDeniedExceptParentSummary ==
  (Done /\ req.user.found /\ req.user.role = "admin"
        /\ req.route.name # "GET /reports/parent-summary") => req.status # 403

\* An admin has passed an inline ownership guard and the handler has answered 200.
C2_Witness ==
  /\ Done /\ req.user.role = "admin"
  /\ req.route.guard = "teacherOwn" /\ "guard" \in req.ran
  /\ HandlerRan /\ req.status = 200

\* C3: for a student, the role-based filtering of GET /grades and of GET
\* /attendance hands the controller, and the controller the store, a filter
\* whose studentId is the caller's own student-profile id, and the listing
\* holds records of no other student.
C3_StudentListingNarrowed ==
  (Done /\ req.user.role = "student" /\ req.route.ctrl \in ListingControllers
        /\ "guard" \in req.ran) =>
    /\ req.filter.studentId = StudentProfileOf(req.user.id)
    /\ req.readStudents \subseteq {StudentProfileOf(req.user.id)}

\* C4: a student on /students/:id... and a teacher on /teachers/:id... reach
\* the handler if and only if the path id is the id of the profile row
\* linked to the authenticated user, and get 403 otherwise.
C4_OwnProfileIff ==
  (Done /\ "guard" \in req.ran
        /\ \/ req.user.role = "student" /\ req.route \in StudentRoutes
              /\ req.route.guard = "studentOwn"
           \/ req.user.role = "teacher" /\ req.route \in TeacherRoutes
              /\ req.route.guard = "teacherOwn") =>
    LET own == IF req.user.role = "student" THEN StudentProfileOf(req.user.id)
               ELSE TeacherProfileOf(req.user.id)
    IN /\ HandlerRan <=> req.id = own
       /\ ~HandlerRan => req.status = 403

\* C5: a teacher, parent or student whose GET names, on /students/:id... or
\* /teachers/:id..., an id that is not the caller's own profile id is
\* answered 403 and the handler does not run.
C5_OthersProfileDenied ==
  (Done /\ "guard" \in req.ran /\ req.user.role \in {"teacher", "parent", "student"}
        /\ req.route.method = "GET"
        /\ \/ req.route \in StudentRoutes /\ req.route.guard = "studentOwn"
              /\ req.id # StudentProfileOf(req.user.id)
           \/ req.route \in TeacherRoutes /\ req.route.guard = "teacherOwn"
              /\ req.id # TeacherProfileOf(req.user.id)) =>
    /\ req.status = 403
    /\ ~HandlerRan

\* C6: a parent is only ever handed the profile, grades or attendance of
\* students linked to the caller's guardian profile; a request for another
\* student's data is denied.
C6_ParentOnlyLinkedStudents ==
  (Done /\ req.user.role = "parent") =>
    /\ req.readStudents \subseteq ChildrenOf(req.user.id)
    /\ (req.route \in StudentRoutes /\ req.route.guard = "studentOwn"
        /\ "guard" \in req.ran /\ req.id \notin ChildrenOf(req.user.id)) =>
         (req.status = 403 /\ ~HandlerRan)

\* C7: while the request in flight is a student's or a parent's create,
\* update or delete on students, teachers, grades or attendance, no step
\* changes the store, and the answer is 403 without the handler running.
C7_StudentParentWritesDenied ==
  [][ (req.user.role \in {"student", "parent"} /\ IsWrite(req.route)) =>
        /\ store' = store
        /\ req'.stage = "done" => (req'.status = 403 /\ "controller" \notin req'.ran)
    ]_vars

\* A parent's PUT /students/S1 has been answered 403 by authorize.
C7_Witness ==
  /\ Done /\ req.user.role = "parent"
  /\ req.route.ctrl = "updateStudent" /\ req.id = "S1"
  /\ req.status = 403 /\ "authorize" \in req.ran

\* The teacher whose profile id is the grade's teacherId.
OwnsGrade(uid, g) == grades[g].teacherId = TeacherProfileOf(uid)

\* C8: updateGrade by a teacher whose profile id differs from the grade's
\* teacherId answers 403 and leaves the grade as it was; by an admin it
\* answers 200 and the grade holds the new values; and no step changes or
\* removes an existing grade unless it is updateGrade run for an admin or
\* for the teacher whose profile id is the grade's teacherId.
C8_GradeUpdateOwnership ==
  [][ /\ (req.stage = "controller" /\ req.route.ctrl = "updateGrade"
          /\ req.id \in DOMAIN grades /\ req.user.role = "teacher"
          /\ ~OwnsGrade(req.user.id, req.id)) =>
            (req'.status = 403 /\ grades' = grades)
      /\ (req.stage = "controller" /\ req.route.ctrl = "updateGrade"
          /\ req.id \in DOMAIN grades /\ req.user.role = "admin") =>
            /\ req'.status = 200
            /\ grades'[req.id].gradeValue = req.body.gradeValue
            /\ grades'[req.id].gradeType = req.body.gradeType
            /\ grades'[req.id].teacherId = grades[req.id].teacherId
      /\ \A g \in DOMAIN grades :
           /\ g \in DOMAIN grades'
           /\ grades'[g] # grades[g] =>
                /\ req.route.ctrl = "updateGrade" /\ req.id = g
                /\ \/ req.user.role = "admin"
                   \/ req.user.role = "teacher" /\ OwnsGrade(req.user.id, g)
    ]_vars

\* Teacher B's update of teacher A's grade gr1 (95, exam) to 60 has been
\* answered 403 and gr1 still holds 95.
C8_Witness ==
  /\ Done /\ req.route.ctrl = "updateGrade" /\ req.id = "gr1"
  /\ req.user.id = "uTeachB" /\ grades["gr1"].teacherId = "T1"
  /\ req.body.gradeValue = 60 /\ grades["gr1"].gradeValue = 95
  /\ HandlerRan /\ req.status = 403

\* C9: no step of a teacher's markAttendance or batchMarkAttendance changes
\* an attendance record whose teacherId is not the caller's profile id and
\* whose class is not assigned to the caller.
C9_TeacherCannotChangeOthersAttendance ==
  [][ (req.stage = "controller" /\ req.user.role = "teacher"
       /\ req.route.ctrl \in {"markAttendance", "batchMarkAttendance"}
       /\ TeacherProfileOf(req.user.id) # Undefined) =>
        \A a \in DOMAIN attendance :
          (/\ attendance[a].teacherId # TeacherProfileOf(req.user.id)
           /\ attendance[a].classId \notin teachers[TeacherProfileOf(req.user.id)].classes)
          => (a \in DOMAIN attendance' /\ attendance'[a] = attendance[a])
    ]_vars

\* C10: for a teacher, the filter getAllGrades and getAllAttendance hand to
\* the store has teacherId equal to the caller's own teacher-profile id, and
\* the listing holds only records of that teacher.
C10_TeacherListingNarrowed ==
  (Done /\ req.user.role = "teacher" /\ req.route.ctrl \in ListingControllers
        /\ HandlerRan) =>
    /\ req.filter.teacherId = TeacherProfileOf(req.user.id)
    /\ \A x \in req.rows :
         IF req.route.ctrl = "getAllGrades"
         THEN grades[x].teacherId = TeacherProfileOf(req.user.id)
         ELSE attendance[x].teacherId = TeacherProfileOf(req.user.id)

\* The attendance rows of att stored for the key of record d.
RowsOfKey(att, d) ==
  { a \in DOMAIN att : /\ att[a].studentId = d.studentId
                       /\ att[a].classId = d.classId
                       /\ att[a].date = d.date }

\* C11: the store holds at most one attendance record for each (studentId,
\* classId, date), and a markAttendance or batchMarkAttendance whose keys
\* all have a record answers 200 with the records updated in place: the
\* existing record never makes the mark fail.
C11_OneRecordPerKey ==
  /\ [](\A a, b \in DOMAIN attendance :
          (/\ attendance[a].studentId = attendance[b].studentId
           /\ attendance[a].classId = attendance[b].classId
           /\ attendance[a].date = attendance[b].date) => a = b)
  /\ [][ /\ (req.stage = "controller" /\ req.route.ctrl = "markAttendance"
             /\ RowsOfKey(attendance, req.body) # {}) =>
               /\ req'.status = 200
               /\ DOMAIN attendance' = DOMAIN attendance
               /\ \A a \in RowsOfKey(attendance, req.body) :
                    attendance'[a].status = req.body.status
         /\ (req.stage = "controller" /\ req.route.ctrl = "batchMarkAttendance"
             /\ \A i \in 1..Len(req.body.attendanceRecords) :
                  RowsOfKey(attendance, req.body.attendanceRecords[i]) # {}) =>
               /\ req'.status = 200
               /\ DOMAIN attendance' = DOMAIN attendance
     ]_vars

\* A mark for the key of the seeded record at1 has been answered 200 and at1
\* holds the marked status.
C11_Witness ==
  /\ Done /\ req.route.ctrl = "markAttendance" /\ req.status = 200
  /\ req.rows = {"at1"}
  /\ req.body.studentId = attendance["at1"].studentId
  /\ req.body.status = "absent" /\ attendance["at1"].status = "absent"
  /\ Cardinality(DOMAIN attendance) = 1

\* C12: a markAttendance for a key without a record answers 201 and leaves
\* exactly one record for the key, holding the payload; a markAttendance
\* for a key with a record answers 200 and leaves that same record, holding
\* the payload.
C12_MarkIdempotent ==
  [][ (req.stage = "controller" /\ req.route.ctrl = "markAttendance") =>
        IF RowsOfKey(attendance, req.body) = {}
        THEN /\ req'.status = 201
             /\ Cardinality(RowsOfKey(attendance', req.body)) = 1
             /\ \A a \in RowsOfKey(attendance', req.body) :
                  attendance'[a].status = req.body.status
        ELSE /\ req'.status = 200
             /\ RowsOfKey(attendance', req.body) = RowsOfKey(attendance, req.body)
             /\ \A a \in RowsOfKey(attendance', req.body) :
                  attendance'[a].status = req.body.status
    ]_vars

\* Requests c and d of SpecConcurrent are two markAttendance calls for the
\* same (studentId, classId, date) and both have been answered.
MarkedSameKey(c, d) ==
  /\ c # d
  /\ inflight[c].op = "markAttendance" /\ inflight[d].op = "markAttendance"
  /\ inflight[c].pc = "done" /\ inflight[d].pc = "done"
  /\ inflight[c].body.studentId = inflight[d].body.studentId
  /\ inflight[c].body.classId = inflight[d].body.classId
  /\ inflight[c].body.date = inflight[d].body.date

\* C13: when two concurrent markAttendance requests for the same key have
\* both been answered, whatever the interleaving of their find and write
\* steps, both succeeded (200 or 201), exactly one record exists for the
\* key, and it holds the status of the request that wrote last.
C13_ConcurrentMarksLastWriteWins ==
  \A c, d \in Clients :
    MarkedSameKey(c, d) =>
      /\ inflight[c].status \in {200, 201} /\ inflight[d].status \in {200, 201}
      /\ Cardinality(RowsOfKey(attendance, inflight[c].body)) = 1
      /\ inflight[c].order > inflight[d].order =>
           \A a \in RowsOfKey(attendance, inflight[c].body) :
             attendance[a].status = inflight[c].body.status

\* Records i and j of a batch have the same (studentId, classId, date).
SameKey(recs, i, j) ==
  /\ recs[i].studentId = recs[j].studentId
  /\ recs[i].classId = recs[j].classId
  /\ recs[i].date = recs[j].date

\* The last record before position k with the key of record i.
LastSameBefore(recs, i, k) ==
  CHOOSE j \in 1..(k - 1) :
    /\ SameKey(recs, i, j)
    /\ \A l \in 1..(k - 1) : SameKey(recs, i, l) => l <= j

\* The first record of the batch whose key has no row: its create fails.
FirstFailing(att, recs) ==
  CHOOSE k \in 1..Len(recs) :
    /\ RowsOfKey(att, recs[k]) = {}
    /\ \A l \in 1..(k - 1) : RowsOfKey(att, recs[l]) # {}

\* C14: when batchMarkAttendance answers 500 because writing its k-th
\* record failed, the rows of records 1..k-1 hold what those records wrote.
C14_BatchKeepsEarlierWrites ==
  [][ (req.stage = "controller" /\ req.route.ctrl = "batchMarkAttendance"
       /\ req'.status = 500) =>
        LET recs == req.body.attendanceRecords
            k == FirstFailing(attendance, recs)
        IN \A i \in 1..(k - 1) :
             \A a \in RowsOfKey(attendance, recs[i]) :
               /\ a \in DOMAIN attendance'
               /\ attendance'[a].status = recs[LastSameBefore(recs, i, k)].status
    ]_vars

\* A batch whose first record marks S1 absent and whose second record, for
\* S2, failed has been answered 500, and the row of S1 holds absent.
C14_Witness ==
  /\ Done /\ req.route.ctrl = "batchMarkAttendance" /\ req.status = 500
  /\ Len(req.body.attendanceRecords) = 2
  /\ req.body.attendanceRecords[1].studentId = "S1"
  /\ req.body.attendanceRecords[1].status = "absent"
  /\ req.body.attendanceRecords[2].studentId = "S2"
  /\ attendance["at1"].status = "absent"

\* C15: batchMarkAttendance does not answer with one failure for the whole
\* batch: it answers 200 with a result per record, and every record whose
\* write can succeed is written, also after a record that failed.
C15_BatchPerItemResults ==
  [][ (req.stage = "controller" /\ req.route.ctrl = "batchMarkAttendance") =>
        LET recs == req.body.attendanceRecords
        IN /\ req'.status = 200
           /\ \A i \in 1..Len(recs) :
                \A a \in RowsOfKey(attendance, recs[i]) :
                  attendance'[a].status
                    = recs[LastSameBefore(recs, i, Len(recs) + 1)].status
    ]_vars

\* The middlewares of validation.js.
Validators == {"validateParams", "validateQuery", "validate"}

\* The request fails the schema of one of the validators of its route.
InvalidRequest(r) ==
  \/ r.route.vparams /\ ~IsUuid(r.id)
  \/ r.route.vquery # "none" /\ ~QueryAccepts(r.route.vquery, r.query)
  \/ r.route.vbody # "none" /\ ~SchemaAccepts(r.route.vbody, r.body)

\* C16 (as stated): a request whose body, path parameters or query fails
\* validation is answered 400, and nothing but the validators has run for
\* it (no read of the store, of the users table included, precedes the 400).
C16_InvalidAnswered400BeforeStore ==
  (Done /\ InvalidRequest(req)) =>
    /\ req.status = 400
    /\ req.ran \subseteq Validators

\* C16 (amended): a request whose body, path parameters or query fails
\* validation never reaches an inline role guard or a controller and
\* changes nothing in the store; only authenticateToken (which reads the
\* users table) and authorize run before the validators, so the answer is
\* 401 or 403 from those two when they reject the caller and 400 from a
\* validator otherwise.  In particular an attendance batch with one record
\* of invalid status stores none of its records.
C16_InvalidRejectedBeforeController ==
  /\ [] ( (req.stage # "idle" /\ InvalidRequest(req)) =>
            ( /\ req.stage \notin {"guard", "controller"}
              /\ req.ran \subseteq ({"authenticateToken", "authorize"} \cup Validators)
              /\ (Done => (req.status \in {400, 401, 403}))
              /\ (Done => ((req.status = 400) <=> ((req.ran \cap Validators) # {})))
              /\ ((Done /\ "authenticateToken" \in req.ran /\ req.user.found
                   /\ (req.route.authz = NoAuthorize
                       \/ req.user.role \in req.route.authz))
                    => (req.status = 400)) ) )
  /\ [][ InvalidRequest(req) => UNCHANGED store ]_vars

\* An admin's batch of two attendance records, the first valid and the
\* second with an unknown status, has been answered 400 by validate, and
\* the controller has not run.
C16_Witness ==
  /\ Done /\ req.route.ctrl = "batchMarkAttendance"
  /\ req.user.found /\ req.user.role = "admin"
  /\ Len(req.body.attendanceRecords) = 2
  /\ req.body.attendanceRecords[1].status \in AttendanceStatuses
  /\ req.body.attendanceRecords[2].status \notin AttendanceStatuses
  /\ req.status = 400
  /\ "validate" \in req.ran /\ "controller" \notin req.ran

\* C17: no step removes a record: every row of every table is still there
\* after the step.  deleteStudent of an existing id changes nothing but
\* that student's status, which becomes withdrawn, and deleteTeacher of an
\* existing id nothing but that teacher's status, which becomes terminated;
\* either of them on a missing id answers 404 and leaves the store as it was.
C17_NoHardDelete ==
  [][ /\ DOMAIN users \subseteq DOMAIN users'
      /\ DOMAIN students \subseteq DOMAIN students'
      /\ DOMAIN teachers \subseteq DOMAIN teachers'
      /\ DOMAIN guardians \subseteq DOMAIN guardians'
      /\ DOMAIN grades \subseteq DOMAIN grades'
      /\ DOMAIN attendance \subseteq DOMAIN attendance'
      /\ (req.stage = "controller" /\ req.route.ctrl = "deleteStudent") =>
           IF req.id \in DOMAIN students
           THEN /\ req'.status = 200
                /\ students' = [students EXCEPT ![req.id].status = "withdrawn"]
                /\ UNCHANGED <<users, teachers, guardians, grades, attendance>>
           ELSE /\ req'.status = 404
                /\ UNCHANGED store
      /\ (req.stage = "controller" /\ req.route.ctrl = "deleteTeacher") =>
           IF req.id \in DOMAIN teachers
           THEN /\ req'.status = 200
                /\ teachers' = [teachers EXCEPT ![req.id].status = "terminated"]
                /\ UNCHANGED <<users, students, guardians, grades, attendance>>
           ELSE /\ req'.status = 404
                /\ UNCHANGED store
    ]_vars

\* DELETE /students/S1 has been answered 200, and the row of S1 is still in
\* the table, with status withdrawn.
C17_Witness ==
  /\ Done /\ req.route.ctrl = "deleteStudent" /\ req.status = 200
  /\ req.id = "S1" /\ "S1" \in DOMAIN students
  /\ students["S1"].status = "withdrawn"

\* C18: a handler whose create or update was rejected by a unique index of
\* the store answers 409, never 500.
C18_UniqueViolationAnswered409 ==
  \A c \in Clients :
    (inflight[c].pc = "done" /\ inflight[c].conflict) => inflight[c].status = 409

C20_OneBoundIsOpenRange ==
  LET q == req.query
      range == [from |-> IF q.startDate = Undefined THEN Absent ELSE q.startDate,
                to |-> IF q.endDate = Undefined THEN Absent ELSE q.endDate]
      ordered == \/ q.startDate = Undefined \/ q.endDate = Undefined
                 \/ DateRank(q.startDate) <= DateRank(q.endDate)
  IN (/\ Done /\ req.route.ctrl \in DateRangeControllers
      /\ "validateQuery" \in req.ran
      /\ IsUuid(req.id) /\ IsUuid(q.studentId) /\ ~q.malformed
      /\ q.startDate # Undefined \/ q.endDate # Undefined
      /\ ordered) =>
       /\ req.status # 400
       /\ (req.status = 200 /\ "controller" \in req.ran) =>
            /\ req.filter.date = range
            /\ \A a \in req.rows :
                 InRange(IF req.filter.model = "Grade" THEN grades[a].gradeDate
                         ELSE attendance[a].date, range)

\* C21: for every list of grades in [0,100], the empty list included, the
\* distribution of the grade statistics (getGradeStatistics, analyzeGrades)
\* has the four buckets, their counts sum to the total, and each bucket
\* counts the grades of its level, every grade having exactly one level.
C21_DistributionSumsToTotal ==
  calc.fn \in {"getGradeStatistics", "analyzeGrades"} =>
    LET d == calc.out.distribution
    IN /\ calc.out.total = Len(calc.arg)
       /\ DOMAIN d = Buckets
       /\ d["excellent"] + d["good"] + d["satisfactory"] + d["unsatisfactory"]
            = calc.out.total
       /\ \A b \in Buckets :
            d[b] = Cardinality({ i \in 1..Len(calc.arg) : getGradeLevel(calc.arg[i]) = b })

\* C22: calculateGPA with weights returns sum(gradeValue * weight) /
\* sum(weight) rounded to 2 decimals, an absent weight counting as 1.0 and
\* a present weight, 0 included, as given; without weights it returns the
\* arithmetic mean rounded to 2 decimals; the empty list gives 0.
C22_WeightedGPA ==
  calc.fn = "calculateGPA" =>
    LET g == calc.arg.grades
        weight(x) == IF x.hasWeight THEN x.weight ELSE WeightUnit
        points == SumOf(g, LAMBDA x : x.gradeValue * weight(x), 1)
        weights == SumOf(g, weight, 1)
    IN IF Len(g) = 0 THEN calc.out = 0
       ELSE IF calc.arg.useWeights
       THEN weights > 0 => calc.out = RoundDiv(100 * points, weights)
       ELSE calc.out = RoundDiv(100 * SumOf(g, LAMBDA x : x.gradeValue, 1), Len(g))

\* C23: every attendance-rate computation returns the whole number
\* round(100 * (present + late) / total), and the number 0 for no records.
C23_AttendanceRateRounded ==
  calc.fn \in {"calculateAttendanceRate", "getAttendanceReport", "getStudentAttendance"} =>
    LET a == calc.arg
        attended == Cardinality({ i \in 1..Len(a) : a[i] \in {"present", "late"} })
    IN calc.out = IF Len(a) = 0 THEN NumberRate(0)
                  ELSE NumberRate(RoundDiv(100 * attended, Len(a)))

\* C24: wherever the academic year and semester are derived from a date,
\* the academic year is Y-(Y+1) for months 9..12 and (Y-1)-Y otherwise,
\* and the semester is 1 for months 9..12 and 1, 2 for months 2..6, and 1
\* for months 7 and 8.
C24_AcademicYearAndSemester ==
  calc.fn \in {"HelpersPeriod", "getTeacherDashboard"} =>
    LET d == calc.arg
    IN /\ calc.out.academicYear =
            IF d.month \in 9..12 THEN <<d.year, d.year + 1>> ELSE <<d.year - 1, d.year>>
       /\ calc.out.semester = IF d.month \in 2..6 THEN 2 ELSE 1

\* C25: for page >= 1, limit in [1,100] and total >= 0, paginate returns
\* offset = (page-1)*limit, totalPages = ceil(total/limit) (the least n with
\* n*limit >= total), hasNext iff page < totalPages, hasPrev iff page > 1;
\* getAllGrades computes the same offset, page defaulting to 1.
C25_Paginate ==
  /\ calc.fn = "paginate" =>
       LET a == calc.arg
           o == calc.out
       IN /\ o.offset = (a.page - 1) * a.limit
          /\ o.totalPages * a.limit >= a.total
          /\ o.totalPages >= 0
          /\ o.totalPages > 0 => (o.totalPages - 1) * a.limit < a.total
          /\ o.hasNext <=> (a.page < o.totalPages)
          /\ o.hasPrev <=> (a.page > 1)
  /\ calc.fn = "getAllGrades" =>
       LET q == calc.arg
       IN calc.out = ((IF q.hasPage THEN q.page ELSE 1) - 1)
                         * (IF q.hasLimit THEN q.limit ELSE 10)

\* paginate(2, 10, 25) has returned offset 10, totalPages 3, hasNext and
\* hasPrev true.
C25_Witness ==
  /\ calc.fn = "paginate"
  /\ calc.arg = [page |-> 2, limit |-> 10, total |-> 25]
  /\ calc.out = [offset |-> 10, totalPages |-> 3, hasNext |-> TRUE, hasPrev |-> TRUE]

C27_RefreshTokenSingleUse ==
  /\ \A u \in DOMAIN users : users[u].refreshToken \in {Null} \cup auth.issued
  /\ (auth.last.op = "login" /\ auth.last.status = 200) =>
       users[auth.last.user].refreshToken = auth.last.token
  /\ ~(auth.last.op = "refresh" /\ auth.last.status = 200 /\ auth.last.spentBefore)

\* C28: a POST /api/grades or POST /api/attendance of an admin whose body
\* passed the schema of the route is never answered 500: the grade is
\* created (201), the attendance created (201) or updated (200), and the
\* stored record has a teacherId.
C28_AdminCreateSucceeds ==
  (/\ Done /\ req.route.ctrl \in {"createGrade", "markAttendance"}
   /\ req.user.found /\ req.user.role = "admin"
   /\ "controller" \in req.ran) =>
    /\ req.status # 500
    /\ req.route.ctrl = "createGrade" => req.status = 201
    /\ req.status \in {200, 201}
    /\ \A x \in req.rows :
         IF req.route.ctrl = "createGrade"
         THEN x \in DOMAIN grades /\ grades[x].teacherId \in DOMAIN teachers
         ELSE x \in DOMAIN attendance /\ attendance[x].teacherId \in DOMAIN teachers

\* C29: when two createStudent requests run concurrently, both succeed with
\* 201 and the two student records they create get different numbers.
C29_ConcurrentNumbersUnique ==
  \A c \in Clients, d \in Clients :
    (/\ c # d
     /\ inflight[c].op = "createStudent" /\ inflight[c].pc = "done"
     /\ inflight[d].op = "createStudent" /\ inflight[d].pc = "done")
    => /\ inflight[c].status = 201
       /\ inflight[d].status = 201
       /\ \A x \in inflight[c].found, y \in inflight[d].found :
            students[x].studentNumber # students[y].studentNumber

====
